---------------------------- MODULE Spec2Model ----------------------------
(***************************************************************************)
(* Android TV / Fire TV integration (custom_components/androidtv_custom).  *)
(*                                                                         *)
(* The parts of the component are modelled each with its own               *)
(* specification over the module's variables:                              *)
(*                                                                         *)
(*   Spec        the media-player entity (media_player.py): adb_decorator, *)
(*               the wrapped commands and the two async_update methods;    *)
(*   SpecLive    the entity's update and commands with the hub's periodic  *)
(*               polling as weak fairness;                                 *)
(*   SpecTasks   the wrapped calls of one entity interleaved at their      *)
(*               awaits;                                                   *)
(*   SpecTwins   an AndroidTV and a FireTV entity polled with the same     *)
(*               inputs;                                                   *)
(*   SpecFlow    the user step of the config flow (config_flow.py);        *)
(*   SpecOptions the options flow (config_flow.py);                        *)
(*   SpecLoaded  the loaded entry: update_listener (__init__.py) and the   *)
(*               entity's _process_config;                                 *)
(*   SpecEntry   the entry's setup, with the migration of its options, and *)
(*               its unload (__init__.py);                                 *)
(*   SpecService the entity's async_mute_volume and its two file services  *)
(*               next to its update.                                       *)
(*                                                                         *)
(* Python's None is the string "None"; an optional list is a record        *)
(* [kind, items] (NoneList / ListOf).  A dict is a function on its keys.   *)
(***************************************************************************)
EXTENDS Integers, Sequences, FiniteSets, TLC

VARIABLES
    \* ---- media-player entity (ADBDevice and its two subclasses) ----
    device_class,           \* "androidtv" | "firetv": which subclass the entity is
    adb_server_ip,          \* aftv.adb_server_ip is set (ADB server) or not (adb_shell)
    exclude_unnamed_apps,   \* self._exclude_unnamed_apps
    app_id_to_name,         \* self._app_id_to_name
    available,              \* self._attr_available
    failed_connect_count,   \* self._failed_connect_count
    state,                  \* self._attr_state
    app_id,                 \* self._attr_app_id
    source,                 \* self._attr_source
    app_name,               \* self._attr_app_name
    source_list,            \* self._attr_source_list
    is_volume_muted,        \* self._attr_is_volume_muted
    volume_level,           \* self._attr_volume_level
    hdmi_input,             \* self._attr_extra_state_attributes[ATTR_HDMI_INPUT]
    adb_response,           \* self._attr_extra_state_attributes[ATTR_ADB_RESPONSE]
    adb_open,               \* the aftv ADB connection is open (not adb_close()d)
    link,                   \* environment: "flaky" | "good" (device reachable and sane)
    conn_result,            \* what the latest adb_connect returned ("ok" at setup)
    last,                   \* what the most recent wrapped call did and returned
    \* ---- config flow, user step ----
    entries,                \* the hub's config entries of this domain
    flow,                   \* the flow's lifecycle: "open" | "created" | "aborted"
    result,                 \* the FlowResult of the latest step of the flow
    probe,                  \* what the latest submission did on the device
    \* ---- options flow (OptionsFlowHandler) ----
    options,                \* config_entry.options
    apps,                   \* self._apps
    cust_commands,          \* self._cust_commands
    state_det_rules,        \* self._state_det_rules
    conf_app_id,            \* self._conf_app_id
    conf_cmd_id,            \* self._conf_cmd_id
    conf_rule_id,           \* self._conf_rule_id
    step_id,                \* the step whose form is showing: "none" before the
                            \* flow, "saved" once it has created its entry
    form,                   \* the form that step showed
    submitted,              \* the latest submission: its step, its input and the
                            \* errors of the form it answered
    \* ---- wrapped calls in progress (one update, two commands) ----
    tasks,                  \* per call: where it is suspended ("idle": not running),
                            \* the exception it is handling, whether it closed the
                            \* connection
    \* ---- the loaded entry (__init__.py) and the entity's configuration ----
    dev_opt,                \* hass.data[DOMAIN][entry_id][ANDROID_DEV_OPT]
    setup_rules,            \* the state-detection rules the device was set up with
    signal,                 \* a dispatcher signal to the entity is pending
    listener,               \* what the latest update_listener / _process_config did
    app_name_to_id,         \* self._app_name_to_id
    get_sources,            \* self._get_sources
    screencap,              \* self._screencap
    custom_commands,        \* the commands customized on aftv (customize_command)
    hass_data,              \* entry.entry_id in hass.data[DOMAIN]
    update_listeners,       \* the update listeners registered on the entry
    lifecycle,              \* what the latest async_setup_entry / async_unload_entry did
    \* ---- the device ----
    dev_muted,              \* the device's volume is muted: "True" | "False"
    service,                \* what the latest async_mute_volume or file service did
    \* ---- a FireTV entity polled with the inputs of the AndroidTV entity ----
    twin                    \* its availability, counter, connection and attributes

entityVars == <<device_class, adb_server_ip, exclude_unnamed_apps, app_id_to_name,
                available, failed_connect_count, state, app_id, source, app_name,
                source_list, is_volume_muted, volume_level, hdmi_input, adb_response, adb_open,
                link, conn_result, last>>
flowVars == <<entries, flow, result, probe>>
optVars == <<options, apps, cust_commands, state_det_rules, conf_app_id, conf_cmd_id,
             conf_rule_id, step_id, form, submitted>>
loadVars == <<dev_opt, setup_rules, signal, listener, app_name_to_id, get_sources,
              screencap, custom_commands, hass_data, update_listeners, lifecycle>>
extVars == <<loadVars, twin, dev_muted, service>>
vars == <<entityVars, flowVars, optVars, tasks, extVars>>

\* The attributes of the entity that a poll or a command may write.
attrVars == <<state, app_id, source, app_name, source_list, is_volume_muted,
              volume_level, hdmi_input, adb_response>>

(***************************************************************************)
(* Bounds.                                                                 *)
(***************************************************************************)
\* Longest run of failed connects the model follows (the code's counter is unbounded).
MaxFailed == 2

(***************************************************************************)
(* Python helpers.                                                         *)
(***************************************************************************)
None == "None"
NoneList == [kind |-> "None", items |-> <<>>]
ListOf(s) == [kind |-> "list", items |-> s]

\* dict.get(key, default)
Get(d, k, default) == IF k \in DOMAIN d THEN d[k] ELSE default

\* dict.pop(key, None) on a copy
Pop(d, key) == [k \in (DOMAIN d) \ {key} |-> d[k]]

\* d[key] = value on a copy
Put(d, key, value) == [k \in (DOMAIN d) \cup {key} |-> IF k = key THEN value ELSE d[k]]

\* {}
NoData == [k \in {} |-> None]

\* d.update(e) on a copy of d
DictUpdate(d, e) ==
    [k \in (DOMAIN d) \cup (DOMAIN e) |-> IF k \in DOMAIN e THEN e[k] ELSE d[k]]

\* Truthiness of a string-or-None value: None and "" are falsy.
Truthy(x) == x # None /\ x # ""

RECURSIVE FilterTruthy(_)
\* [s for s in seq if s]
FilterTruthy(seq) ==
    IF seq = <<>> THEN <<>>
    ELSE IF Truthy(Head(seq)) THEN <<Head(seq)>> \o FilterTruthy(Tail(seq))
         ELSE FilterTruthy(Tail(seq))

(***************************************************************************)
(* Exceptions.  Parent is the direct base class; the device library's and  *)
(* the built-in classes a device call can raise all derive from Exception. *)
(***************************************************************************)
Parent ==
    [ LockNotAcquiredException |-> "Exception",
      AdbTimeoutError          |-> "Exception",
      InvalidChecksumError     |-> "Exception",
      InvalidCommandError      |-> "Exception",
      InvalidResponseError     |-> "Exception",
      TcpTimeoutException      |-> "Exception",
      BrokenPipeError          |-> "ConnectionError",
      ConnectionResetError     |-> "ConnectionError",
      ConnectionError          |-> "OSError",
      OSError                  |-> "Exception",
      UnicodeDecodeError       |-> "ValueError",
      ValueError               |-> "Exception",
      RuntimeError             |-> "Exception",
      TypeError                |-> "Exception" ]

RECURSIVE IsSubclass(_, _)
\* issubclass(c, base)
IsSubclass(c, base) ==
    \/ c = base
    \/ c \in DOMAIN Parent /\ IsSubclass(Parent[c], base)

\* isinstance(exc, classes) for a tuple of classes, as an except clause tests it
Matches(exc, classes) == \E c \in classes : IsSubclass(exc, c)

\* The exception classes a device call raises in the model.
Raised ==
    { "LockNotAcquiredException", "ConnectionResetError", "ValueError",
      "UnicodeDecodeError", "RuntimeError" }

\* self.exceptions, media_player.py 250-265
ExpectedExceptions(server_ip) ==
    IF ~server_ip
    THEN { "AdbTimeoutError", "BrokenPipeError", "ConnectionResetError", "ValueError",
           "InvalidChecksumError", "InvalidCommandError", "InvalidResponseError",
           "TcpTimeoutException" }
    ELSE { "ConnectionResetError", "RuntimeError" }

(***************************************************************************)
(* adb_decorator, media_player.py 154-206.                                 *)
(***************************************************************************)
\* Variants of the definitions below, each with one plausible slip.
\* The availability test is dropped: every call runs.
Skipped_Never(avail, override_available) == FALSE

\* The expected-exception branch closes the connection but forgets to mark the
\* entity unavailable.
Catcher_ExpectedKeepsAvailable(exc, avail, open, expected) ==
    IF exc = "none" \/ Matches(exc, {"LockNotAcquiredException"})
    THEN [available |-> avail, adb_open |-> open, closed |-> FALSE, raise |-> "none"]
    ELSE IF Matches(exc, expected)
    THEN [available |-> avail, adb_open |-> FALSE, closed |-> TRUE, raise |-> "none"]
    ELSE [available |-> FALSE, adb_open |-> FALSE, closed |-> TRUE, raise |-> exc]

\* The catch-all branch re-raises without closing.
Catcher_UnexpectedNotClosed(exc, avail, open, expected) ==
    IF exc = "none" \/ Matches(exc, {"LockNotAcquiredException"})
    THEN [available |-> avail, adb_open |-> open, closed |-> FALSE, raise |-> "none"]
    ELSE IF Matches(exc, expected)
    THEN [available |-> FALSE, adb_open |-> FALSE, closed |-> TRUE, raise |-> "none"]
    ELSE [available |-> avail, adb_open |-> open, closed |-> FALSE, raise |-> exc]

\* LockNotAcquiredException is handled like an expected ADB exception.
Catcher_LockCloses(exc, avail, open, expected) ==
    IF exc = "none"
    THEN [available |-> avail, adb_open |-> open, closed |-> FALSE, raise |-> "none"]
    ELSE IF Matches(exc, {"LockNotAcquiredException"}) \/ Matches(exc, expected)
    THEN [available |-> FALSE, adb_open |-> FALSE, closed |-> TRUE, raise |-> "none"]
    ELSE [available |-> FALSE, adb_open |-> FALSE, closed |-> TRUE, raise |-> exc]

\* Line 177: the wrapper returns None at once, without calling the method.
Skipped(avail, override_available) == ~avail /\ ~override_available

\* Lines 180-202: what the try/except does with the outcome of the wrapped
\* method.  exc is the exception the method raised ("none": it returned), avail
\* and open are the entity's availability and the connection as the method left
\* them.  raise is the exception that leaves the wrapper ("none": it returns).
Catcher(exc, avail, open, expected) ==
    IF exc = "none"
    THEN [available |-> avail, adb_open |-> open, closed |-> FALSE, raise |-> "none"]
    ELSE IF Matches(exc, {"LockNotAcquiredException"})
    THEN [available |-> avail, adb_open |-> open, closed |-> FALSE, raise |-> "none"]
    ELSE IF Matches(exc, expected)
    THEN [available |-> FALSE, adb_open |-> FALSE, closed |-> TRUE, raise |-> "none"]
    ELSE [available |-> FALSE, adb_open |-> FALSE, closed |-> TRUE, raise |-> exc]

\* A source as the hub passes it: a str, given as its pieces ("!", one
\* whitespace character, or a run of other characters), or something else.
Str(chars) == [isstr |-> TRUE, chars |-> chars]
NotStr == [isstr |-> FALSE, chars |-> <<>>]

\* The record of an async_mute_volume or file-service call that has not
\* happened.  seq alternates from call to call, so that two equal calls in a
\* row are two steps; before is the device's mute status when the call began,
\* is_muted what aftv.is_volume_muted() returned ("n/a": not asked, or it
\* raised), transfer the device call of a file service, returned whether
\* the method ran to its end.
NoService ==
    [ op |-> "none", seq |-> 0, mute |-> "n/a", before |-> "n/a", is_muted |-> "n/a",
      toggled |-> FALSE, local_path |-> "n/a", transfer |-> "none",
      returned |-> FALSE ]

\* The record of a wrapped call that has not happened (after construction);
\* src is the source async_select_source was given, running the running apps
\* a poll returned.
NoCall ==
    [ op |-> "none", was_available |-> TRUE, skipped |-> FALSE, connect |-> "none",
      log_errors |-> FALSE, avail_mid |-> TRUE, polled |-> FALSE, raw |-> "n/a",
      calls |-> 0, src |-> NotStr, launched |-> <<>>, stopped |-> <<>>,
      running |-> NoneList, exc |-> "none", ret |-> None,
      propagated |-> "none", closed |-> FALSE ]

\* Line 178: the call is skipped; nothing but the call record changes.
Skip(op) ==
    /\ last' = [NoCall EXCEPT !.op = op, !.was_available = available,
                              !.skipped = TRUE, !.avail_mid = available]
    /\ UNCHANGED <<available, adb_open>>

\* Lines 180-202 applied to a method that ran: r describes the run
\* ([connect, log_errors, avail_mid, open_mid, polled, raw, calls, exc, ret]).
Finish(op, r) ==
    LET c == Catcher(r.exc, r.avail_end, r.open_mid, ExpectedExceptions(adb_server_ip))
    IN  /\ available' = c.available
        /\ adb_open' = c.adb_open
        /\ last' = [ op |-> op, was_available |-> available, skipped |-> FALSE,
                     connect |-> r.connect, log_errors |-> r.log_errors,
                     avail_mid |-> r.avail_mid, polled |-> r.polled, raw |-> r.raw,
                     calls |-> r.calls, src |-> r.src, launched |-> r.launched,
                     stopped |-> r.stopped, running |-> r.running, exc |-> r.exc,
                     ret |-> IF r.exc = "none" THEN r.ret ELSE None,
                     propagated |-> c.raise, closed |-> c.closed ]

\* The run of a command: no connect, no poll, n device calls, outcome exc/ret.
CommandRun(n, exc, ret) ==
    [ connect |-> "none", log_errors |-> FALSE, avail_mid |-> available,
      avail_end |-> available, open_mid |-> adb_open, polled |-> FALSE,
      raw |-> "n/a", calls |-> n, src |-> NotStr, launched |-> <<>>, stopped |-> <<>>,
      running |-> NoneList, exc |-> exc,
      ret |-> ret ]

(***************************************************************************)
(* The environment: what the device library hands back.                    *)
(***************************************************************************)
\* Outcome of one awaited device call: "ok" or the class of the exception raised.
Outcomes == IF link = "good" THEN {"ok"} ELSE {"ok"} \cup Raised

\* aftv.adb_connect returns a bool.
ConnectResults == IF link = "good" THEN {TRUE} ELSE {TRUE, FALSE}

\* ANDROIDTV_STATES, media_player.py 86-93 (HA's STATE_* constants are these strings)
ANDROIDTV_STATES ==
    [ off |-> "off", idle |-> "idle", standby |-> "standby", playing |-> "playing",
      paused |-> "paused" ]

\* Results of aftv.update(): (state, current_app, running_apps, [audio,
\* is_volume_muted, volume_level,] hdmi_input).  The last two samples carry a
\* state that is not one of the five.
KnownTelemetry ==
    { [ state |-> "playing", current_app |-> "com.netflix.ninja",
        running_apps |-> ListOf(<<"com.netflix.ninja", "com.unnamed.app">>),
        is_volume_muted |-> "False", volume_level |-> "0.5", hdmi_input |-> "HDMI1" ],
      [ state |-> "paused", current_app |-> "com.unnamed.app",
        running_apps |-> ListOf(<<"com.unnamed.app", "com.blank.app", "com.custom.app">>),
        is_volume_muted |-> "True", volume_level |-> "0.5", hdmi_input |-> None ],
      [ state |-> "idle", current_app |-> "com.custom.app",
        running_apps |-> ListOf(<<"com.custom.app">>),
        is_volume_muted |-> "False", volume_level |-> None, hdmi_input |-> None ],
      [ state |-> "standby", current_app |-> None, running_apps |-> ListOf(<<>>),
        is_volume_muted |-> None, volume_level |-> None, hdmi_input |-> None ],
      [ state |-> "off", current_app |-> None, running_apps |-> NoneList,
        is_volume_muted |-> None, volume_level |-> None, hdmi_input |-> None ] }

UnknownTelemetry ==
    { [ state |-> None, current_app |-> None, running_apps |-> NoneList,
        is_volume_muted |-> None, volume_level |-> None, hdmi_input |-> None ],
      [ state |-> "stopped", current_app |-> "com.netflix.ninja",
        running_apps |-> ListOf(<<"com.netflix.ninja">>),
        is_volume_muted |-> "False", volume_level |-> "0.5", hdmi_input |-> "HDMI1" ] }

Telemetry == IF link = "good" THEN KnownTelemetry ELSE KnownTelemetry \cup UnknownTelemetry

(***************************************************************************)
(* ADBDevice._process_config, media_player.py 276-291: the app names.      *)
(***************************************************************************)
\* androidtv.constants.APPS, the library's built-in app names (an excerpt),
\* and the order of its keys.
APPS == [a \in {"com.amazon.avod", "com.netflix.ninja"} |->
            IF a = "com.amazon.avod" THEN "Amazon Prime Video" ELSE "Netflix"]
AppsOrder == <<"com.amazon.avod", "com.netflix.ninja">>

\* The apps option of the entry: a named app and an app with an empty name.
ConfApps == [a \in {"com.custom.app", "com.blank.app"} |->
                IF a = "com.custom.app" THEN "My App" ELSE ""]

\* Lines 281-283
AppIdToName(conf_apps) == DictUpdate(APPS, conf_apps)

\* Where the key comes when the dict of lines 282-283 is iterated: the built-in
\* apps in their order, then the apps the option adds.
Position(k) ==
    IF k \in DOMAIN APPS THEN CHOOSE i \in 1..Len(AppsOrder) : AppsOrder[i] = k
    ELSE Len(AppsOrder) + 1

\* Lines 284-286: the named apps by name; of two apps with one name the one
\* that comes later in the dict stays.  (No two apps that an option of the
\* model adds share a name.)
ByName(id_to_name) ==
    LET named == { k \in DOMAIN id_to_name : Truthy(id_to_name[k]) }
    IN  [ n \in { id_to_name[k] : k \in named } |->
            CHOOSE k \in named :
               /\ id_to_name[k] = n
               /\ \A j \in named : id_to_name[j] = n => Position(j) <= Position(k) ]

\* Variant: the apps of the option are not written over the inverted dict.
AppNameToId_NoOverride(id_to_name, conf_apps) == ByName(id_to_name)

\* Lines 284-291: the inverted dict, then every app of the apps option under
\* its name, named or not.
AppNameToId(id_to_name, conf_apps) ==
    LET overridden == [ n \in { conf_apps[k] : k \in DOMAIN conf_apps } |->
                          CHOOSE k \in DOMAIN conf_apps : conf_apps[k] = n ]
    IN  DictUpdate(ByName(id_to_name), overridden)

(***************************************************************************)
(* async_update, media_player.py 468-511 (AndroidTV) and 557-597 (FireTV). *)
(***************************************************************************)
\* Variant: errors are logged on every attempt.
LogErrors_Always(count) == TRUE

\* Line 474 / 563: log_errors=self._failed_connect_count == 0
LogErrors(count) == count = 0

\* Variant: a successful connect does not reset the counter.
ConnectStep_NoReset(avail, count, open, conn) ==
    IF ~avail
    THEN IF conn
         THEN [ attempted |-> TRUE, available |-> TRUE, count |-> count,
                adb_open |-> TRUE ]
         ELSE [ attempted |-> TRUE, available |-> FALSE, count |-> count + 1,
                adb_open |-> open ]
    ELSE [ attempted |-> FALSE, available |-> avail, count |-> count, adb_open |-> open ]

\* Variant: a successful connect does not mark the entity available.
ConnectStep_StaysUnavailable(avail, count, open, conn) ==
    IF ~avail
    THEN IF conn
         THEN [ attempted |-> TRUE, available |-> FALSE, count |-> 0,
                adb_open |-> TRUE ]
         ELSE [ attempted |-> TRUE, available |-> FALSE, count |-> count + 1,
                adb_open |-> open ]
    ELSE [ attempted |-> FALSE, available |-> avail, count |-> count, adb_open |-> open ]

\* Variant: a failed connect sets the counter to 1 instead of adding 1.
ConnectStep_CountsOnce(avail, count, open, conn) ==
    IF ~avail
    THEN IF conn
         THEN [ attempted |-> TRUE, available |-> TRUE, count |-> 0, adb_open |-> TRUE ]
         ELSE [ attempted |-> TRUE, available |-> FALSE, count |-> 1,
                adb_open |-> open ]
    ELSE [ attempted |-> FALSE, available |-> avail, count |-> count, adb_open |-> open ]

\* Lines 472-478 / 561-567: the reconnect attempt of an unavailable entity.
\* conn is what adb_connect returned.
ConnectStep(avail, count, open, conn) ==
    IF ~avail
    THEN IF conn
         THEN [ attempted |-> TRUE, available |-> TRUE, count |-> 0, adb_open |-> TRUE ]
         ELSE [ attempted |-> TRUE, available |-> FALSE, count |-> count + 1,
                adb_open |-> open ]
    ELSE [ attempted |-> FALSE, available |-> avail, count |-> count, adb_open |-> open ]

\* Variant: the raw device state is stored untranslated.
Normalize_Raw(raw) == raw

\* Line 495 / 581: ANDROIDTV_STATES.get(state)
Normalize(raw) == Get(ANDROIDTV_STATES, raw, None)

\* Lines 500-502 / 586-588
SourceOf(names, app) == Get(names, app, app)

\* Variant: unnamed apps are listed by their id whatever exclude_unnamed_apps is.
SourceList_ExcludeIgnored(names, exclude, running) ==
    FilterTruthy([i \in 1..Len(running) |-> Get(names, running[i], running[i])])

\* Lines 503-509 / 589-595
SourceList(names, exclude, running) ==
    FilterTruthy([i \in 1..Len(running) |->
                    Get(names, running[i], IF ~exclude THEN running[i] ELSE None)])

(***************************************************************************)
(* The wrapped commands, media_player.py 322-448 and 513-540, 599-602.     *)
(***************************************************************************)
\* The exception a single awaited device call with outcome out raises.
ExcOf(out) == IF out = "ok" THEN "none" ELSE out

\* Any of the methods whose body is one awaited device call and nothing else:
\* async_media_play, async_media_pause, async_media_play_pause, async_turn_on,
\* async_turn_off, async_media_previous_track, async_media_next_track (342-375),
\* async_media_stop (513-516, 599-602), async_set_volume_level (527-530).
SimpleCommand(out) ==
    /\ IF Skipped(available, FALSE)
       THEN Skip("simple_command")
       ELSE Finish("simple_command", CommandRun(1, ExcOf(out), None))
    /\ UNCHANGED <<device_class, adb_server_ip, exclude_unnamed_apps, app_id_to_name,
                   failed_connect_count, attrVars, link, conn_result, flowVars, optVars,
                   tasks, extVars>>

RECURSIVE Join(_)
\* The str made of the pieces.
Join(chars) == IF chars = <<>> THEN "" ELSE Head(chars) \o Join(Tail(chars))

RECURSIVE LStrip(_)
\* str.lstrip()
LStrip(chars) ==
    IF chars # <<>> /\ Head(chars) \in {" ", "\t"} THEN LStrip(Tail(chars)) ELSE chars

\* Variant: the rest of a '!' source is used as it is, whitespace included.
SelectSourceCalls_NoStrip(src, name_to_id) ==
    IF ~src.isstr THEN [launched |-> <<>>, stopped |-> <<>>]
    ELSE IF ~(src.chars # <<>> /\ Head(src.chars) = "!")
    THEN [ launched |-> <<Get(name_to_id, Join(src.chars), Join(src.chars))>>,
           stopped |-> <<>> ]
    ELSE [ launched |-> <<>>,
           stopped |-> <<Get(name_to_id, Join(Tail(src.chars)), Join(Tail(src.chars)))>> ]

\* Lines 384-389: the apps async_select_source asks the device to launch and
\* to stop.
SelectSourceCalls(src, name_to_id) ==
    IF ~src.isstr THEN [launched |-> <<>>, stopped |-> <<>>]
    ELSE IF ~(src.chars # <<>> /\ Head(src.chars) = "!")
    THEN [ launched |-> <<Get(name_to_id, Join(src.chars), Join(src.chars))>>,
           stopped |-> <<>> ]
    ELSE LET source_ == Join(LStrip(Tail(src.chars)))
         IN  [ launched |-> <<>>, stopped |-> <<Get(name_to_id, source_, source_)>> ]

\* The sources the hub passes.
Sources ==
    { Str(<<"Netflix">>), Str(<<"My", " ", "App">>), Str(<<"com.other.app">>),
      Str(<<"!", "Netflix">>), Str(<<"!", " ", "\t", "com.other.app">>),
      Str(<<"!", " ", "My", " ", "App">>), Str(<<>>), Str(<<"!">>),
      Str(<<" ", "!", "Netflix">>), NotStr }

\* async_select_source, 377-389: one launch_app or one stop_app call for a str
\* source, no device call otherwise.
SelectSource(src, out) ==
    /\ IF Skipped(available, FALSE)
       THEN Skip("select_source")
       ELSE LET calls == SelectSourceCalls(src, app_name_to_id)
                n == Len(calls.launched) + Len(calls.stopped)
            IN  Finish("select_source",
                       [CommandRun(n, IF n = 0 THEN "none" ELSE ExcOf(out), None)
                          EXCEPT !.src = src,
                                 !.launched = calls.launched,
                                 !.stopped = calls.stopped])
    /\ UNCHANGED <<device_class, adb_server_ip, exclude_unnamed_apps, app_id_to_name,
                   failed_connect_count, attrVars, link, conn_result, flowVars, optVars,
                   tasks, extVars>>

\* _adb_screencap, 322-325: returns what the device returned.
AdbScreencap(out) ==
    /\ IF Skipped(available, FALSE)
       THEN Skip("screencap")
       ELSE Finish("screencap", CommandRun(1, ExcOf(out), "png"))
    /\ UNCHANGED <<device_class, adb_server_ip, exclude_unnamed_apps, app_id_to_name,
                   failed_connect_count, attrVars, link, conn_result, flowVars, optVars,
                   tasks, extVars>>

\* str.strip() on the shell responses of the model
Strip(s) == IF s = " out " THEN "out" ELSE IF s = "  " THEN "" ELSE s

\* adb_command, 391-414.  command is a key name ("HOME"), "GET_PROPERTIES" or a
\* shell command ("ls"); response is what adb_shell returned.
AdbCommand(command, out, response) ==
    /\ IF Skipped(available, FALSE)
       THEN Skip("adb_command") /\ UNCHANGED adb_response
       ELSE IF command = "HOME"
       THEN /\ Finish("adb_command", CommandRun(1, ExcOf(out), None))
            /\ UNCHANGED adb_response
       ELSE IF command = "GET_PROPERTIES"
       THEN /\ Finish("adb_command", CommandRun(1, ExcOf(out), None))
            /\ adb_response' = IF out = "ok" THEN "props" ELSE adb_response
       ELSE IF out # "ok" /\ Matches(out, {"UnicodeDecodeError"})
       THEN /\ Finish("adb_command", CommandRun(1, "none", None))
            /\ UNCHANGED adb_response
       ELSE /\ Finish("adb_command", CommandRun(1, ExcOf(out), None))
            /\ adb_response' = IF out = "ok" /\ response # None /\ Strip(response) # ""
                               THEN Strip(response) ELSE adb_response
    /\ UNCHANGED <<device_class, adb_server_ip, exclude_unnamed_apps, app_id_to_name,
                   failed_connect_count, state, app_id, source, app_name, source_list,
                   is_volume_muted, volume_level, hdmi_input, link, conn_result,
                   flowVars, optVars,
                   tasks, extVars>>

\* learn_sendevent, 416-430: output is what the device returned.
LearnSendevent(out, output) ==
    /\ IF Skipped(available, FALSE)
       THEN Skip("learn_sendevent") /\ UNCHANGED adb_response
       ELSE /\ Finish("learn_sendevent", CommandRun(1, ExcOf(out), None))
            /\ adb_response' = IF out = "ok" /\ Truthy(output) THEN output
                               ELSE adb_response
    /\ UNCHANGED <<device_class, adb_server_ip, exclude_unnamed_apps, app_id_to_name,
                   failed_connect_count, state, app_id, source, app_name, source_list,
                   is_volume_muted, volume_level, hdmi_input, link, conn_result,
                   flowVars, optVars,
                   tasks, extVars>>

\* async_volume_down / async_volume_up of an Android TV, 532-540: the device
\* returns the new level (or None).
VolumeStep(out, level) ==
    /\ device_class = "androidtv"
    /\ IF Skipped(available, FALSE)
       THEN Skip("volume_step") /\ UNCHANGED volume_level
       ELSE /\ Finish("volume_step", CommandRun(1, ExcOf(out), None))
            /\ volume_level' = IF out = "ok" THEN level ELSE volume_level
    /\ UNCHANGED <<device_class, adb_server_ip, exclude_unnamed_apps, app_id_to_name,
                   failed_connect_count, state, app_id, source, app_name, source_list,
                   is_volume_muted, hdmi_input, adb_response, link, conn_result,
                   flowVars, optVars,
                   tasks, extVars>>

\* Variant: an unknown status is taken for one that differs.
MuteToggles_Unknown(is_muted, mute) == is_muted # mute

\* Line 524: async_mute_volume goes on to aftv.mute_volume()
MuteToggles(is_muted, mute) == is_muted # None /\ is_muted # mute

\* What aftv.mute_volume() does to the device: the key press toggles the mute.
Toggled(muted) == IF muted = "True" THEN "False" ELSE "True"

\* async_mute_volume of an Android TV, 518-525.  status is the outcome of
\* aftv.is_volume_muted() and is_muted what it returns (the device's status,
\* or None when it could not be determined); out is the outcome of
\* aftv.mute_volume() and delivered tells whether the key press reached the
\* device (it did if the call returned).
MuteVolume(mute, status, is_muted, out, delivered) ==
    LET asked == ~Skipped(available, FALSE)
        known == asked /\ status = "ok"
        toggle == known /\ MuteToggles(is_muted, mute)
    IN  /\ device_class = "androidtv"
        /\ IF ~asked THEN Skip("mute_volume")
           ELSE IF ~known THEN Finish("mute_volume", CommandRun(1, ExcOf(status), None))
           ELSE IF ~toggle THEN Finish("mute_volume", CommandRun(1, "none", None))
           ELSE Finish("mute_volume", CommandRun(2, ExcOf(out), None))
        /\ dev_muted' = IF toggle /\ delivered THEN Toggled(dev_muted) ELSE dev_muted
        /\ service' = [ NoService EXCEPT !.op = "mute_volume",
                                         !.seq = 1 - service.seq,
                                         !.mute = mute,
                                         !.before = dev_muted,
                                         !.is_muted = IF known THEN is_muted ELSE "n/a",
                                         !.toggled = toggle,
                                         !.returned = known /\ (toggle => out = "ok") ]
        /\ UNCHANGED <<device_class, adb_server_ip, exclude_unnamed_apps, app_id_to_name,
                       failed_connect_count, attrVars, link, conn_result,
                       flowVars, optVars, tasks, loadVars, twin>>

\* The inputs of async_mute_volume: the library reports the device's status
\* or None, and a key press that returned was delivered.
MuteInputs ==
    { i \in [mute : {"True", "False"}, status : Outcomes, is_muted : {None, dev_muted},
             out : Outcomes, delivered : BOOLEAN] :
        /\ i.status # "ok" => (i.is_muted = None /\ i.out = "ok" /\ i.delivered)
        /\ i.out = "ok" => i.delivered }

\* hass.config.allowlist_external_dirs and the local paths of the model
AllowlistExternalDirs == {"/config/www"}
LocalPaths ==
    [ allowed |-> [dir |-> "/config/www", name |-> "shot.png"],
      outside |-> [dir |-> "/etc", name |-> "passwd"] ]

\* hass.config.is_allowed_path (the hub's; called at 435 and 444): the path's
\* directory is one of the allowed ones.
IsAllowedPath(local_path) == local_path.dir \in AllowlistExternalDirs

\* Variant: the path is not checked.
TransferCalls_Unchecked(local_path) == 1

\* The device calls of a file service for local_path, 435-439 and 444-448
TransferCalls(local_path) == IF IsAllowedPath(local_path) THEN 1 ELSE 0

\* service_download (432-439) and service_upload (441-448): op names the
\* service, out is the outcome of aftv.adb_pull / aftv.adb_push.
FileService(op, local_path, out) ==
    LET asked == ~Skipped(available, FALSE)
        calls == TransferCalls(local_path)
    IN  /\ IF ~asked THEN Skip(op)
           ELSE IF calls = 0 THEN Finish(op, CommandRun(0, "none", None))
           ELSE Finish(op, CommandRun(calls, ExcOf(out), None))
        /\ service' = [ NoService EXCEPT !.op = op,
                                         !.seq = 1 - service.seq,
                                         !.local_path = local_path,
                                         !.transfer =
                                            IF ~asked \/ calls = 0 THEN "none"
                                            ELSE IF op = "service_download" THEN "adb_pull"
                                            ELSE "adb_push",
                                         !.returned = asked /\ (calls = 0 \/ out = "ok") ]
        /\ UNCHANGED <<device_class, adb_server_ip, exclude_unnamed_apps, app_id_to_name,
                       failed_connect_count, attrVars, link, conn_result,
                       flowVars, optVars, tasks, loadVars, twin, dev_muted>>

(***************************************************************************)
(* async_update.  conn is what adb_connect returns if it is called, out    *)
(* the outcome of aftv.update() and t the tuple it returns.                *)
(***************************************************************************)
\* The run of async_update up to and including the poll.
UpdateRun(c, conn, out, t) ==
    [ connect |-> IF ~c.attempted THEN "none" ELSE IF conn THEN "ok" ELSE "fail",
      log_errors |-> c.attempted /\ LogErrors(failed_connect_count),
      avail_mid |-> c.available,
      avail_end |-> c.available /\ (out = "ok" => Normalize(t.state) # None),
      open_mid |-> c.adb_open,
      polled |-> c.available,
      raw |-> IF c.available /\ out = "ok" THEN t.state ELSE "n/a",
      calls |-> IF c.available THEN 1 ELSE 0,
      src |-> NotStr,
      launched |-> <<>>,
      stopped |-> <<>>,
      running |-> IF c.available /\ out = "ok" THEN t.running_apps ELSE NoneList,
      exc |-> IF c.available THEN ExcOf(out) ELSE "none",
      ret |-> None ]

\* Lines 499-511 / 585-597: source and source list after a poll that returned t.
SourcesAfter(t, setAppName) ==
    IF t.running_apps.kind = "list" /\ t.running_apps.items # <<>>
    THEN /\ source' = SourceOf(app_id_to_name, t.current_app)
         /\ app_name' = IF setAppName THEN SourceOf(app_id_to_name, t.current_app)
                        ELSE app_name
         /\ source_list' = ListOf(SourceList(app_id_to_name, exclude_unnamed_apps,
                                             t.running_apps.items))
    ELSE /\ source_list' = NoneList
         /\ UNCHANGED <<source, app_name>>

\* Lines 485-511: the attributes after aftv.update() returned t.
AndroidTV_Polled(t) ==
    /\ app_id' = t.current_app
    /\ is_volume_muted' = t.is_volume_muted
    /\ volume_level' = t.volume_level
    /\ hdmi_input' = t.hdmi_input
    /\ state' = Normalize(t.state)
    /\ SourcesAfter(t, TRUE)

\* Lines 573-597: the attributes after aftv.update() returned t.
FireTV_Polled(t) ==
    /\ app_id' = t.current_app
    /\ hdmi_input' = t.hdmi_input
    /\ state' = Normalize(t.state)
    /\ SourcesAfter(t, FALSE)
    /\ UNCHANGED <<is_volume_muted, volume_level>>

\* AndroidTVDevice.async_update, 468-511
AndroidTV_async_update(conn, out, t) ==
    /\ device_class = "androidtv"
    /\ ~Skipped(available, TRUE)
    /\ LET c == ConnectStep(available, failed_connect_count, adb_open, conn)
           polled == c.available /\ out = "ok"
       IN  /\ c.count <= MaxFailed
           /\ failed_connect_count' = c.count
           /\ conn_result' = IF ~c.attempted THEN conn_result
                             ELSE IF conn THEN "ok" ELSE "fail"
           /\ Finish("async_update", UpdateRun(c, conn, out, t))
           /\ IF polled
              THEN AndroidTV_Polled(t)
              ELSE UNCHANGED <<state, app_id, source, app_name, source_list,
                               is_volume_muted, volume_level, hdmi_input>>
    /\ UNCHANGED <<device_class, adb_server_ip, exclude_unnamed_apps, app_id_to_name,
                   adb_response, link, flowVars, optVars,
                   tasks, loadVars, dev_muted, service>>

\* FireTVDevice.async_update, 557-597
FireTV_async_update(conn, out, t) ==
    /\ device_class = "firetv"
    /\ ~Skipped(available, TRUE)
    /\ LET c == ConnectStep(available, failed_connect_count, adb_open, conn)
           polled == c.available /\ out = "ok"
       IN  /\ c.count <= MaxFailed
           /\ failed_connect_count' = c.count
           /\ conn_result' = IF ~c.attempted THEN conn_result
                             ELSE IF conn THEN "ok" ELSE "fail"
           /\ Finish("async_update", UpdateRun(c, conn, out, t))
           /\ IF polled
              THEN FireTV_Polled(t)
              ELSE UNCHANGED <<state, app_id, source, app_name, source_list,
                               is_volume_muted, volume_level, hdmi_input>>
    /\ UNCHANGED <<device_class, adb_server_ip, exclude_unnamed_apps, app_id_to_name,
                   adb_response, link, flowVars, optVars,
                   tasks, loadVars, dev_muted, service>>

(***************************************************************************)
(* FireTVDevice.async_update as a function of the entity's state e, for a  *)
(* FireTV entity that is polled with the inputs of the AndroidTV entity.   *)
(***************************************************************************)
\* The FireTV entity after construction (214-274).
TwinConstructed ==
    [ available |-> TRUE, failed_connect_count |-> 0, adb_open |-> TRUE,
      state |-> None, app_id |-> None, source |-> None, source_list |-> NoneList,
      hdmi_input |-> None ]

\* Variant: the source list is left as it was when no app is running.
FireTVPolled_ListKept(e, t) ==
    LET has_apps == t.running_apps.kind = "list" /\ t.running_apps.items # <<>>
    IN  [ e EXCEPT !.app_id = t.current_app,
                   !.hdmi_input = t.hdmi_input,
                   !.state = Normalize(t.state),
                   !.available = Normalize(t.state) # None,
                   !.source = IF has_apps THEN SourceOf(app_id_to_name, t.current_app)
                              ELSE @,
                   !.source_list =
                       IF has_apps
                       THEN ListOf(SourceList(app_id_to_name, exclude_unnamed_apps,
                                              t.running_apps.items))
                       ELSE @ ]

\* Lines 573-597: the entity after aftv.update() returned t.
FireTVPolled(e, t) ==
    LET has_apps == t.running_apps.kind = "list" /\ t.running_apps.items # <<>>
    IN  [ e EXCEPT !.app_id = t.current_app,
                   !.hdmi_input = t.hdmi_input,
                   !.state = Normalize(t.state),
                   !.available = Normalize(t.state) # None,
                   !.source = IF has_apps THEN SourceOf(app_id_to_name, t.current_app)
                              ELSE @,
                   !.source_list =
                       IF has_apps
                       THEN ListOf(SourceList(app_id_to_name, exclude_unnamed_apps,
                                              t.running_apps.items))
                       ELSE NoneList ]

\* Lines 557-597 under the wrapper (177-202): the entity after async_update.
FireTVUpdate(e, conn, out, t) ==
    LET c == ConnectStep(e.available, e.failed_connect_count, e.adb_open, conn)
        connected == [ e EXCEPT !.available = c.available,
                                !.failed_connect_count = c.count,
                                !.adb_open = c.adb_open ]
        polled == IF c.available /\ out = "ok" THEN FireTVPolled(connected, t)
                  ELSE connected
        k == Catcher(IF c.available THEN ExcOf(out) ELSE "none", polled.available,
                     polled.adb_open, ExpectedExceptions(adb_server_ip))
    IN  [ polled EXCEPT !.available = k.available, !.adb_open = k.adb_open ]

\* The two entities are polled with the same inputs.
TwinUpdate(conn, out, t) ==
    /\ AndroidTV_async_update(conn, out, t)
    /\ twin' = FireTVUpdate(twin, conn, out, t)

\* The device and the network settle: from now on connects succeed, polls
\* return one of the five states and no call raises.
Heal ==
    /\ link = "flaky"
    /\ link' = "good"
    /\ UNCHANGED <<device_class, adb_server_ip, exclude_unnamed_apps, app_id_to_name,
                   available, failed_connect_count, attrVars, adb_open, conn_result,
                   last, flowVars, optVars,
                   tasks, extVars>>

(***************************************************************************)
(* The wrapped calls as the event loop runs them: a call runs until it     *)
(* awaits the device (adb_connect, the device call of its method,          *)
(* adb_close) and goes on when the awaited call returns; other calls run   *)
(* in between.  One async_update (the hub does not overlap the updates of  *)
(* an entity) and two commands.                                            *)
(***************************************************************************)
TaskIds == {"update", "c1", "c2"}
IdleTask == [pc |-> "idle", exc |-> "none", closed |-> FALSE]
\* No wrapped call is in progress.
TasksIdle == [id \in TaskIds |-> IdleTask]

Suspend(id, pc, exc) == tasks' = [tasks EXCEPT ![id] = [pc |-> pc, exc |-> exc, closed |-> FALSE]]

\* Lines 177-181: a command that is not skipped calls its method, which awaits
\* the device.
CommandCalled(id) ==
    /\ id # "update"
    /\ tasks[id].pc = "idle"
    /\ ~Skipped(available, FALSE)
    /\ Suspend(id, "call", "none")
    /\ UNCHANGED <<entityVars, flowVars, optVars, extVars>>

\* Lines 177-181 and 471-474 / 560-563 (then 481-493 / 570-578): async_update
\* awaits adb_connect if the entity is unavailable, aftv.update() otherwise.
UpdateCalled ==
    /\ tasks["update"].pc = "idle"
    /\ ~Skipped(available, TRUE)
    /\ Suspend("update", IF ~available THEN "connect" ELSE "call", "none")
    /\ UNCHANGED <<entityVars, flowVars, optVars, extVars>>

\* Lines 474-482 / 563-571: adb_connect returned conn; the update goes on to
\* await aftv.update() if the entity is now available and returns otherwise.
UpdateConnected(conn) ==
    /\ tasks["update"].pc = "connect"
    /\ LET c == ConnectStep(FALSE, failed_connect_count, adb_open, conn)
       IN  /\ c.count <= MaxFailed
           /\ available' = c.available
           /\ failed_connect_count' = c.count
           /\ adb_open' = c.adb_open
           /\ conn_result' = IF conn THEN "ok" ELSE "fail"
           /\ Suspend("update", IF c.available THEN "call" ELSE "idle", "none")
    /\ UNCHANGED <<device_class, adb_server_ip, exclude_unnamed_apps, app_id_to_name,
                   attrVars, link, last, flowVars, optVars, extVars>>

\* The awaited device call of a wrapped method returned (out = "ok") or raised.
\* A method that returned ends the call (the update first stores what it
\* polled, lines 485-511 / 573-597); LockNotAcquiredException ends it too
\* (182-187); any other exception makes the wrapper await adb_close (195, 200),
\* which may close the connection at once or when it returns.
CallReturned(id, out, t, closes_now) ==
    /\ tasks[id].pc = "call"
    /\ LET c == Catcher(ExcOf(out), available, adb_open, ExpectedExceptions(adb_server_ip))
       IN  IF c.closed
           THEN /\ Suspend(id, "close", ExcOf(out))
                /\ adb_open' = IF closes_now THEN FALSE ELSE adb_open
                /\ UNCHANGED <<available, attrVars>>
           ELSE /\ Suspend(id, "idle", "none")
                /\ adb_open' = adb_open
                /\ IF id = "update" /\ out = "ok"
                   THEN /\ IF device_class = "androidtv"
                           THEN AndroidTV_Polled(t) ELSE FireTV_Polled(t)
                        /\ available' = (available /\ Normalize(t.state) # None)
                        /\ UNCHANGED adb_response
                   ELSE UNCHANGED <<available, attrVars>>
    /\ UNCHANGED <<device_class, adb_server_ip, exclude_unnamed_apps, app_id_to_name,
                   failed_connect_count, link, conn_result, last, flowVars, optVars, extVars>>

\* Lines 195-197 / 200-202: adb_close returned; the wrapper marks the entity
\* unavailable and returns or re-raises.
CallClosed(id) ==
    /\ tasks[id].pc = "close"
    /\ LET c == Catcher(tasks[id].exc, available, adb_open,
                        ExpectedExceptions(adb_server_ip))
       IN  /\ available' = c.available
           /\ adb_open' = c.adb_open
           /\ tasks' = [tasks EXCEPT ![id] = [pc |-> "idle", exc |-> tasks[id].exc,
                                              closed |-> c.closed]]
    /\ UNCHANGED <<device_class, adb_server_ip, exclude_unnamed_apps, app_id_to_name,
                   failed_connect_count, attrVars, link, conn_result, last, flowVars,
                   optVars, extVars>>

(***************************************************************************)
(* Config flow, user step: config_flow.py 57-159, __init__.py 45-55.       *)
(***************************************************************************)
\* The file system _is_file looks at: each path's kind.  A path that is not
\* listed does not exist.
FileSystem ==
    [ p \in {"/home/hass/adbkey", "/config/secret", "/config"} |->
        IF p = "/home/hass/adbkey" THEN "readable file"
        ELSE IF p = "/config/secret" THEN "unreadable file"
        ELSE "directory" ]

\* os.path.expanduser
Expanduser(path) == IF path = "~/adbkey" THEN "/home/hass/adbkey" ELSE path

\* Variant: any existing path passes, file or not, readable or not.
IsFile_Exists(value) == Expanduser(value) \in DOMAIN FileSystem

\* _is_file, config_flow.py 57-60: os.path.isfile(f) and os.access(f, os.R_OK)
IsFile(value) ==
    LET file_in == Expanduser(value)
    IN  /\ Get(FileSystem, file_in, "missing") \in {"readable file", "unreadable file"}
        /\ Get(FileSystem, file_in, "missing") = "readable file"

\* homeassistant's format_mac on the addresses of the model
FormatMac(mac) ==
    IF mac = "A1:B1:C1:D1:E1:F1" THEN "a1:b1:c1:d1:e1:f1"
    ELSE IF mac = "FF-FF-FF-FF-FF-FF" THEN "ff:ff:ff:ff:ff:ff"
    ELSE mac

\* _INVALID_MACS, __init__.py 45
INVALID_MACS == {"ff:ff:ff:ff:ff:ff"}

\* Variant: the first address present is used, invalid or not.
GetAndroidtvMac_NoInvalidCheck(dev_props) ==
    IF Truthy(dev_props.ethmac) THEN FormatMac(dev_props.ethmac)
    ELSE IF Truthy(dev_props.wifimac) THEN FormatMac(dev_props.wifimac)
    ELSE None

\* Variant: only the Ethernet address is looked at.
GetAndroidtvMac_EthOnly(dev_props) ==
    IF Truthy(dev_props.ethmac) /\ FormatMac(dev_props.ethmac) \notin INVALID_MACS
    THEN FormatMac(dev_props.ethmac)
    ELSE None

\* get_androidtv_mac, __init__.py 48-55
GetAndroidtvMac(dev_props) ==
    IF Truthy(dev_props.ethmac) /\ FormatMac(dev_props.ethmac) \notin INVALID_MACS
    THEN FormatMac(dev_props.ethmac)
    ELSE IF Truthy(dev_props.wifimac) /\ FormatMac(dev_props.wifimac) \notin INVALID_MACS
    THEN FormatMac(dev_props.wifimac)
    ELSE None


\* A submitted form: host, port and device class always, the three advanced
\* fields when given (Absent: the key is not in the dict).
Absent == "<absent>"
MkInput(host, adbkey, server_ip, server_port) ==
    [ k \in {"host", "port", "device_class"}
            \cup (IF adbkey = Absent THEN {} ELSE {"adbkey"})
            \cup (IF server_ip = Absent THEN {} ELSE {"adb_server_ip"})
            \cup (IF server_port = Absent THEN {} ELSE {"adb_server_port"}) |->
        IF k = "host" THEN host
        ELSE IF k = "port" THEN "5555"
        ELSE IF k = "device_class" THEN "auto"
        ELSE IF k = "adbkey" THEN adbkey
        ELSE IF k = "adb_server_ip" THEN server_ip
        ELSE server_port ]

Hosts == {"127.0.0.1", "127.0.0.2"}
KeyPaths == {Absent, "", "~/adbkey", "/config/nokey", "/config/secret", "/config"}

UserInputs ==
    { MkInput(h, k, sv[1], sv[2]) :
        h \in Hosts, k \in KeyPaths,
        sv \in { <<Absent, Absent>>, <<Absent, "5037">>, <<"127.0.0.1", "5037">> } }

\* What async_connect_androidtv does when the step calls it: it raises, it
\* returns (None, message), or it returns a connected device with these
\* properties.
Device(eth, wifi) == [kind |-> "device", ethmac |-> eth, wifimac |-> wifi]
ConnectOutcomes ==
    { [kind |-> "raise", ethmac |-> None, wifimac |-> None],
      [kind |-> "none", ethmac |-> None, wifimac |-> None],
      Device("A1:B1:C1:D1:E1:F1", None),
      Device("FF-FF-FF-FF-FF-FF", "a2:b2:c2:d2:e2:f2"),
      Device(None, "a1:b1:c1:d1:e1:f1"),
      Device("ff:ff:ff:ff:ff:ff", None),
      Device("", "FF-FF-FF-FF-FF-FF") }

\* Variant: an exception is reported like a failed connection.
CheckConnection_RaiseAsCannotConnect(conn) ==
    IF conn.kind \in {"raise", "none"}
    THEN [error |-> "cannot_connect", unique_id |-> None, closes |-> 0]
    ELSE [error |-> None, unique_id |-> GetAndroidtvMac(conn), closes |-> 1]

\* Variant: the connected device is not closed.
CheckConnection_NoClose(conn) ==
    IF conn.kind = "raise"
    THEN [error |-> "unknown", unique_id |-> None, closes |-> 0]
    ELSE IF conn.kind = "none"
    THEN [error |-> "cannot_connect", unique_id |-> None, closes |-> 0]
    ELSE [error |-> None, unique_id |-> GetAndroidtvMac(conn), closes |-> 0]

\* _async_check_connection, config_flow.py 99-125
CheckConnection(conn) ==
    IF conn.kind = "raise"
    THEN [error |-> "unknown", unique_id |-> None, closes |-> 0]
    ELSE IF conn.kind = "none"
    THEN [error |-> "cannot_connect", unique_id |-> None, closes |-> 0]
    ELSE [error |-> None, unique_id |-> GetAndroidtvMac(conn), closes |-> 1]

\* FlowResults
NoResult ==
    [type |-> "none", error |-> None, reason |-> None, title |-> None, data |-> NoData]

\* _show_setup_form, 68-97: the user form with errors={"base": error}
ShowSetupForm(error) == [NoResult EXCEPT !.type = "form", !.error = error]
Abort(reason) == [NoResult EXCEPT !.type = "abort", !.reason = reason]
CreateEntry(title, data) ==
    [NoResult EXCEPT !.type = "create_entry", !.title = title, !.data = data]

\* A submission: the error the submitted form was showing, the input, what
\* async_connect_androidtv does if called, and the connection attempts and
\* closes the step made.
NoProbe ==
    [ after |-> None, input |-> NoData,
      conn |-> [kind |-> "none", ethmac |-> None, wifimac |-> None],
      attempts |-> 0, closes |-> 0 ]

\* Variant: a key together with a server is never rejected.
KeyAndServer_Never(user_input) == FALSE

\* CONF_ADB_SERVER_IP in user_input and adb_key (lines 134-135)
KeyAndServer(user_input) ==
    "adb_server_ip" \in DOMAIN user_input /\ Truthy(Get(user_input, "adbkey", None))

\* Variant: the entries are matched on the wrong field.
HostConfigured_WrongKey(ents, host) == \E e \in ents : e.data["port"] = host

\* _async_abort_entries_match({CONF_HOST: host}), line 144
HostConfigured(ents, host) == \E e \in ents : e.data["host"] = host

\* Variant: the unique id is looked up among the entries' titles.
UniqueIdConfigured_ByTitle(ents, unique_id) == \E e \in ents : e.title = unique_id

\* _abort_if_unique_id_configured, line 151
UniqueIdConfigured(ents, unique_id) == \E e \in ents : e.unique_id = unique_id

\* Variant: the ADB server port is never removed.
EntryData_KeepsPort(user_input) == user_input

\* user_input as async_create_entry gets it, lines 134-138: the ADB server
\* port is popped when no ADB server IP was submitted.
EntryData(user_input) ==
    IF "adb_server_ip" \in DOMAIN user_input THEN user_input
    ELSE Pop(user_input, "adb_server_port")

\* Variant: the host check is made first, before the input is validated.
StepUser_HostFirst(user_input, conn, ents) ==
    LET host == user_input["host"]
        adb_key == Get(user_input, "adbkey", None)
        data == IF "adb_server_ip" \in DOMAIN user_input THEN user_input
                ELSE Pop(user_input, "adb_server_port")
        chk == CheckConnection(conn)
        out(res, n, c) == [result |-> res, entries |-> ents, attempts |-> n, closes |-> c]
    IN  IF HostConfigured(ents, host)
        THEN out(Abort("already_configured"), 0, 0)
        ELSE IF KeyAndServer(user_input)
        THEN out(ShowSetupForm("key_and_server"), 0, 0)
        ELSE IF Truthy(adb_key) /\ ~IsFile(adb_key)
        THEN out(ShowSetupForm("adbkey_not_file"), 0, 0)
        ELSE IF chk.error # None
        THEN out(ShowSetupForm(chk.error), 1, chk.closes)
        ELSE IF ~Truthy(chk.unique_id)
        THEN out(Abort("invalid_unique_id"), 1, chk.closes)
        ELSE IF UniqueIdConfigured(ents, chk.unique_id)
        THEN out(Abort("already_configured"), 1, chk.closes)
        ELSE [ result |-> CreateEntry(host, data),
               entries |-> ents \cup {[unique_id |-> chk.unique_id, title |-> host,
                                       data |-> data]},
               attempts |-> 1, closes |-> chk.closes ]

\* async_step_user with a submitted form, config_flow.py 127-159: the flow
\* result, the entries afterwards, and the connection attempts and closes made.
StepUser(user_input, conn, ents) ==
    LET host == user_input["host"]
        adb_key == Get(user_input, "adbkey", None)
        data == EntryData(user_input)
        chk == CheckConnection(conn)
        out(res, n, c) == [result |-> res, entries |-> ents, attempts |-> n, closes |-> c]
    IN  IF KeyAndServer(user_input)
        THEN out(ShowSetupForm("key_and_server"), 0, 0)
        ELSE IF Truthy(adb_key) /\ ~IsFile(adb_key)
        THEN out(ShowSetupForm("adbkey_not_file"), 0, 0)
        ELSE IF HostConfigured(ents, host)
        THEN out(Abort("already_configured"), 0, 0)
        ELSE IF chk.error # None
        THEN out(ShowSetupForm(chk.error), 1, chk.closes)
        ELSE IF ~Truthy(chk.unique_id)
        THEN out(Abort("invalid_unique_id"), 1, chk.closes)
        ELSE IF UniqueIdConfigured(ents, chk.unique_id)
        THEN out(Abort("already_configured"), 1, chk.closes)
        ELSE [ result |-> CreateEntry(host, data),
               entries |-> ents \cup {[unique_id |-> chk.unique_id, title |-> host,
                                       data |-> data]},
               attempts |-> 1, closes |-> chk.closes ]

\* The user opens the flow: async_step_user(None) shows the empty form (158-159).
StartFlow ==
    /\ flow # "open"
    /\ flow' = "open"
    /\ result' = ShowSetupForm(None)
    /\ probe' = NoProbe
    /\ UNCHANGED <<entries, entityVars, optVars, tasks, extVars>>

\* The user submits the form of the open flow.  A form keeps the flow open; an
\* abort or a created entry ends it.
Submit(user_input, conn) ==
    /\ flow = "open"
    /\ LET r == StepUser(user_input, conn, entries)
       IN  /\ result' = r.result
           /\ entries' = r.entries
           /\ probe' = [after |-> result.error, input |-> user_input, conn |-> conn,
                        attempts |-> r.attempts, closes |-> r.closes]
           /\ flow' = IF r.result.type = "form" THEN "open"
                      ELSE IF r.result.type = "abort" THEN "aborted"
                      ELSE "created"
    /\ UNCHANGED <<entityVars, optVars, tasks, extVars>>

\* The connection outcomes that matter to a submission: one is enough when the
\* step returns before it calls async_connect_androidtv.
ConnectOutcomesFor(user_input) ==
    IF StepUser(user_input, CHOOSE c \in ConnectOutcomes : c.kind = "none",
                entries).attempts = 0
    THEN {CHOOSE c \in ConnectOutcomes : c.kind = "none"}
    ELSE ConnectOutcomes

(***************************************************************************)
(* Options flow: config_flow.py 168-384.  A submitted form is the dict the *)
(* form's schema lets through: optional fields without a default may be    *)
(* missing, the others are always there.                                   *)
(***************************************************************************)
APPS_NEW_ID == "NewApp"
RULES_NEW_ID == "NewRule"

\* androidtv.constants.HA_CUSTOMIZABLE_COMMANDS (two of them)
HA_CUSTOMIZABLE_COMMANDS == {"HOME", "BACK"}

\* androidtv.constants.VALID_STATES
VALID_STATES == {"idle", "off", "playing", "paused", "standby"}

\* A JSON value: a string, or a list of strings.
JsonStr(v) == [type |-> "str", str |-> v, items |-> <<>>]
JsonList(vs) == [type |-> "list", str |-> "", items |-> vs]

\* The texts a user types into the rule values field.
RuleStrings == {"", "{bad", "\"idle\"", "[\"standby\"]", "[\"sleeping\"]"}

\* json.loads on those texts; ok is FALSE where it raises ValueError.
JsonLoads(text) ==
    IF text = "\"idle\"" THEN [ok |-> TRUE, value |-> JsonStr("idle")]
    ELSE IF text = "[\"standby\"]" THEN [ok |-> TRUE, value |-> JsonList(<<"standby">>)]
    ELSE IF text = "[\"sleeping\"]" THEN [ok |-> TRUE, value |-> JsonList(<<"sleeping">>)]
    ELSE [ok |-> FALSE, value |-> JsonList(<<>>)]

\* androidtv.state_detection_rules_validator on a list of state names: TRUE
\* where it returns, FALSE where it raises.
StateDetectionRulesValidator(json_rules) ==
    \A i \in DOMAIN json_rules.items : json_rules.items[i] \in VALID_STATES

\* Variant: a JSON value that is not a list is kept as it is.
ValidateStateDetRules_NoWrap(state_det_rules_text) ==
    LET loaded == JsonLoads(state_det_rules_text)
    IN  IF ~loaded.ok THEN [valid |-> FALSE, rules |-> JsonList(<<>>)]
        ELSE IF loaded.value.type = "list" /\ ~StateDetectionRulesValidator(loaded.value)
        THEN [valid |-> FALSE, rules |-> JsonList(<<>>)]
        ELSE IF loaded.value.type # "list" /\ loaded.value.str \notin VALID_STATES
        THEN [valid |-> FALSE, rules |-> JsonList(<<>>)]
        ELSE [valid |-> TRUE, rules |-> loaded.value]

\* _validate_state_det_rules, config_flow.py 368-384; valid is FALSE where the
\* function returns None.
ValidateStateDetRules(state_det_rules_text) ==
    LET loaded == JsonLoads(state_det_rules_text)
        json_rules == IF loaded.value.type = "list" THEN loaded.value
                      ELSE JsonList(<<loaded.value.str>>)
    IN  IF ~loaded.ok THEN [valid |-> FALSE, rules |-> JsonList(<<>>)]
        ELSE IF ~StateDetectionRulesValidator(json_rules)
        THEN [valid |-> FALSE, rules |-> JsonList(<<>>)]
        ELSE [valid |-> TRUE, rules |-> json_rules]

\* The form a step shows: the id it was rendered for, the default of its id
\* field and its errors.
Form(id, default_id, errors) == [id |-> id, default_id |-> default_id, errors |-> errors]
NoForm == Form(None, "", None)

\* A submission: its step, its input and the errors of the form it answered.
NoSubmission == [step |-> "none", input |-> NoData, errors |-> None]

\* Variant: the name of an edited app is not stored.
AppsAfter_NameDropped(a, conf_id, user_input) ==
    LET id == Get(user_input, "app_id", conf_id)
    IN  IF ~Truthy(id) THEN a
        ELSE IF Get(user_input, "app_delete", FALSE) THEN Pop(a, id)
        ELSE Put(a, id, "")

\* self._apps after async_step_apps got user_input, lines 261-267
AppsAfter(a, conf_id, user_input) ==
    LET id == Get(user_input, "app_id", conf_id)
    IN  IF ~Truthy(id) THEN a
        ELSE IF Get(user_input, "app_delete", FALSE) THEN Pop(a, id)
        ELSE Put(a, id, Get(user_input, "app_name", ""))

\* Variant: an empty value is stored like any other.
CommandsAfter_EmptyStored(c, conf_id, user_input) ==
    Put(c, conf_id, Get(user_input, "cmd_value", ""))

\* self._cust_commands after async_step_commands got user_input, lines 298-302
CommandsAfter(c, conf_id, user_input) ==
    LET cmd_value == Get(user_input, "cmd_value", None)
    IN  IF ~Truthy(cmd_value) THEN Pop(c, conf_id)
        ELSE Put(c, conf_id, cmd_value)

\* Variant: the three keys are written even when the staged mapping is empty.
SaveConfig_KeysAlways(data, a, c, r) ==
    LET new_data == [k \in (DOMAIN data) \ {"apps", "custom_commands",
                                            "state_detection_rules"} |-> data[k]]
    IN  Put(Put(Put(new_data, "apps", a), "custom_commands", c),
            "state_detection_rules", r)

\* _save_config, lines 185-199: the options the flow's entry is created with
SaveConfig(data, a, c, r) ==
    LET new_data == [k \in (DOMAIN data) \ {"apps", "custom_commands",
                                            "state_detection_rules"} |-> data[k]]
        with_apps == IF DOMAIN a # {} THEN Put(new_data, "apps", a) ELSE new_data
        with_cmds == IF DOMAIN c # {} THEN Put(with_apps, "custom_commands", c)
                     ELSE with_apps
    IN  IF DOMAIN r # {} THEN Put(with_cmds, "state_detection_rules", r)
        ELSE with_cmds

\* Variant: the flow edits the mappings of the entry's options themselves.
EntryOptionsAfter_Shared(opts, key, staged) ==
    IF key \in DOMAIN opts THEN Put(opts, key, staged) ELSE opts

\* The entry's options after a sub-form has edited the staged mapping of key:
\* __init__ (lines 175-180) took copies, so the entry's mappings are other
\* objects than the ones the sub-forms write to.
EntryOptionsAfter(opts, key, staged) == opts

\* Variant: a selected rule goes before a selected app or command.
InitSelection_RuleFirst(user_input) ==
    IF Truthy(Get(user_input, "state_detection_rules", None)) THEN "rules"
    ELSE IF Truthy(Get(user_input, "apps", None)) THEN "apps"
    ELSE IF Truthy(Get(user_input, "custom_commands", None)) THEN "commands"
    ELSE "saved"

\* Which branch of async_step_init a submitted init form takes, lines 205-212
InitSelection(user_input) ==
    IF Truthy(Get(user_input, "apps", None)) THEN "apps"
    ELSE IF Truthy(Get(user_input, "custom_commands", None)) THEN "commands"
    ELSE IF Truthy(Get(user_input, "state_detection_rules", None)) THEN "rules"
    ELSE "saved"

\* Variant: the delete switch is ignored.
RulesAfter_DeleteIgnored(r, conf_id, user_input) ==
    LET rule_id == Get(user_input, "rule_id", conf_id)
        str_det_rule == Get(user_input, "rule_values", None)
        state_det_rule == ValidateStateDetRules(str_det_rule)
    IN  IF ~Truthy(rule_id) THEN r
        ELSE IF Truthy(str_det_rule) /\ state_det_rule.valid
        THEN Put(r, rule_id, state_det_rule.rules)
        ELSE r

\* self._state_det_rules after async_step_rules got user_input, lines 329-341
RulesAfter(r, conf_id, user_input) ==
    LET rule_id == Get(user_input, "rule_id", conf_id)
        str_det_rule == Get(user_input, "rule_values", None)
        state_det_rule == ValidateStateDetRules(str_det_rule)
    IN  IF ~Truthy(rule_id) THEN r
        ELSE IF Get(user_input, "rule_delete", FALSE) THEN Pop(r, rule_id)
        ELSE IF Truthy(str_det_rule) /\ state_det_rule.valid
        THEN Put(r, rule_id, state_det_rule.rules)
        ELSE r

\* OptionsFlowHandler.__init__ (171-183), then async_step_init(None) shows the
\* init form.
StartOptions ==
    /\ step_id = "none"
    /\ apps' = Get(options, "apps", NoData)
    /\ cust_commands' = Get(options, "custom_commands", NoData)
    /\ state_det_rules' = Get(options, "state_detection_rules", NoData)
    /\ conf_app_id' = None
    /\ conf_cmd_id' = None
    /\ conf_rule_id' = None
    /\ step_id' = "init"
    /\ form' = NoForm
    /\ submitted' = NoSubmission
    /\ UNCHANGED <<options, entityVars, flowVars, tasks, extVars>>

\* async_step_init with a submitted init form, lines 201-212: a selected app,
\* else a selected command, else a selected rule opens its sub-form;
\* otherwise the options are saved and the flow ends.
StepInit(user_input) ==
    LET sel_app == Get(user_input, "apps", None)
        sel_cmd == Get(user_input, "custom_commands", None)
        sel_rule == Get(user_input, "state_detection_rules", None)
        next == InitSelection(user_input)
    IN  /\ step_id = "init"
        /\ step_id' = next
        /\ conf_app_id' = IF next # "apps" THEN conf_app_id
                          ELSE IF sel_app # APPS_NEW_ID THEN sel_app ELSE None
        /\ conf_cmd_id' = IF next = "commands" THEN sel_cmd ELSE conf_cmd_id
        /\ conf_rule_id' = IF next # "rules" THEN conf_rule_id
                           ELSE IF sel_rule # RULES_NEW_ID THEN sel_rule ELSE None
        /\ form' = IF next = "apps" THEN Form(sel_app, "", None)
                   ELSE IF next = "commands" THEN Form(sel_cmd, "", None)
                   ELSE IF next = "rules" THEN Form(sel_rule, "", None)
                   ELSE NoForm
        /\ options' = IF next = "saved"
                      THEN SaveConfig(user_input, apps, cust_commands, state_det_rules)
                      ELSE options
        /\ submitted' = [step |-> "init", input |-> user_input, errors |-> form.errors]
        /\ UNCHANGED <<apps, cust_commands, state_det_rules, entityVars, flowVars, tasks, extVars>>

\* async_step_apps with a submitted apps form, lines 255-269
StepApps(user_input) ==
    /\ step_id = "apps"
    /\ apps' = AppsAfter(apps, conf_app_id, user_input)
    /\ step_id' = "init"
    /\ form' = NoForm
    /\ options' = EntryOptionsAfter(options, "apps", apps')
    /\ submitted' = [step |-> "apps", input |-> user_input, errors |-> form.errors]
    /\ UNCHANGED <<cust_commands, state_det_rules, conf_app_id, conf_cmd_id,
                   conf_rule_id, entityVars, flowVars, tasks, extVars>>

\* async_step_commands with a submitted commands form, lines 293-304
StepCommands(user_input) ==
    /\ step_id = "commands"
    /\ cust_commands' = CommandsAfter(cust_commands, conf_cmd_id, user_input)
    /\ step_id' = "init"
    /\ form' = NoForm
    /\ options' = EntryOptionsAfter(options, "custom_commands", cust_commands')
    /\ submitted' = [step |-> "commands", input |-> user_input, errors |-> form.errors]
    /\ UNCHANGED <<apps, state_det_rules, conf_app_id, conf_cmd_id,
                   conf_rule_id, entityVars, flowVars, tasks, extVars>>

\* async_step_rules with a submitted rules form, lines 322-343
StepRules(user_input) ==
    LET rule_id == Get(user_input, "rule_id", conf_rule_id)
        str_det_rule == Get(user_input, "rule_values", None)
        delete == Truthy(rule_id) /\ Get(user_input, "rule_delete", FALSE)
        validate == Truthy(rule_id) /\ ~delete /\ Truthy(str_det_rule)
        state_det_rule == ValidateStateDetRules(str_det_rule)
        rejected == validate /\ ~state_det_rule.valid
    IN  /\ step_id = "rules"
        /\ state_det_rules' = RulesAfter(state_det_rules, conf_rule_id, user_input)
        /\ options' = EntryOptionsAfter(options, "state_detection_rules", state_det_rules')
        /\ step_id' = IF rejected THEN "rules" ELSE "init"
        /\ form' = IF rejected
                   THEN Form(IF Truthy(conf_rule_id) THEN conf_rule_id ELSE RULES_NEW_ID,
                             rule_id, "invalid_det_rules")
                   ELSE NoForm
        /\ submitted' = [step |-> "rules", input |-> user_input, errors |-> form.errors]
        /\ UNCHANGED <<apps, cust_commands, conf_app_id, conf_cmd_id,
                       conf_rule_id, entityVars, flowVars, tasks, extVars>>

(***************************************************************************)
(* The loaded entry: update_listener (__init__.py 181-197) and the         *)
(* entity's _process_config (media_player.py 276-302, 304-315).            *)
(***************************************************************************)
\* The defaults of the three switches (const.py, imported at media_player.py 59-61)
DEFAULT_GET_SOURCES == TRUE
DEFAULT_EXCLUDE_UNNAMED_APPS == FALSE
DEFAULT_SCREENCAP == TRUE

\* __init__.py 43
RELOAD_OPTIONS == {"state_detection_rules"}

\* _process_config, media_player.py 276-302: what the entity and its device
\* hold after it has read the options.
ProcessConfig(opts) ==
    LET conf_apps == Get(opts, "apps", NoData)
        cmds == Get(opts, "custom_commands", NoData)
    IN  [ app_id_to_name |-> AppIdToName(conf_apps),
          app_name_to_id |-> AppNameToId(AppIdToName(conf_apps), conf_apps),
          get_sources |-> Get(opts, "get_sources", DEFAULT_GET_SOURCES),
          exclude_unnamed_apps |->
              Get(opts, "exclude_unnamed_apps", DEFAULT_EXCLUDE_UNNAMED_APPS),
          screencap |-> Get(opts, "screencap", DEFAULT_SCREENCAP),
          custom_commands |-> [ cmd \in HA_CUSTOMIZABLE_COMMANDS |-> Get(cmds, cmd, None) ] ]

\* The entity reads the options (primed: after the step).
ConfigProcessed(opts) ==
    LET p == ProcessConfig(opts)
    IN  /\ app_id_to_name' = p.app_id_to_name
        /\ app_name_to_id' = p.app_name_to_id
        /\ get_sources' = p.get_sources
        /\ exclude_unnamed_apps' = p.exclude_unnamed_apps
        /\ screencap' = p.screencap
        /\ custom_commands' = p.custom_commands

\* Lines 183-190: an option of RELOAD_OPTIONS in the new options has no old
\* value or another old value.
ReloadOpt(old_options, new_options) ==
    \E opt_key \in DOMAIN new_options :
        /\ opt_key \in RELOAD_OPTIONS
        /\ \/ opt_key \notin DOMAIN old_options
           \/ old_options[opt_key] # new_options[opt_key]

\* Variant: the stored options are not replaced.
UpdateListener_SnapshotKept(old_options, new_options) ==
    IF ReloadOpt(old_options, new_options)
    THEN [reload_opt |-> TRUE, dev_opt |-> old_options, signal |-> FALSE]
    ELSE [reload_opt |-> FALSE, dev_opt |-> old_options, signal |-> TRUE]

\* update_listener, 181-197: whether it reloads the entry; if not, the stored
\* options it leaves and the signal it sends.
UpdateListener(old_options, new_options) ==
    IF ReloadOpt(old_options, new_options)
    THEN [reload_opt |-> TRUE, dev_opt |-> old_options, signal |-> FALSE]
    ELSE [reload_opt |-> FALSE, dev_opt |-> new_options, signal |-> TRUE]

\* The old option keys (const.py, imported at __init__.py 31-32) and the
\* commands they become (androidtv.constants, __init__.py 6).
CONF_TURN_OFF_COMMAND == "turn_off_command"
CONF_TURN_ON_COMMAND == "turn_on_command"
CUSTOM_TURN_OFF == "turn_off"
CUSTOM_TURN_ON == "turn_on"

\* Lines 119-125: the values of the old keys under their new keys.
MigratedCommands(opts) ==
    [ new_key \in (IF CONF_TURN_OFF_COMMAND \in DOMAIN opts THEN {CUSTOM_TURN_OFF} ELSE {})
                  \cup (IF CONF_TURN_ON_COMMAND \in DOMAIN opts THEN {CUSTOM_TURN_ON}
                        ELSE {}) |->
        IF new_key = CUSTOM_TURN_OFF THEN opts[CONF_TURN_OFF_COMMAND]
        ELSE opts[CONF_TURN_ON_COMMAND] ]

\* Variant: the old keys are left in the options.
MigrateOptionsKey_OldKeysKept(opts) ==
    IF DOMAIN MigratedCommands(opts) = {}
    THEN [options |-> opts, updated |-> FALSE]
    ELSE [options |-> Put(opts, "custom_commands", MigratedCommands(opts)),
          updated |-> TRUE]

\* _migrate_options_key, __init__.py 116-136: the entry's options afterwards
\* and whether async_update_entry was called.
MigrateOptionsKey(opts) ==
    IF DOMAIN MigratedCommands(opts) = {}
    THEN [options |-> opts, updated |-> FALSE]
    ELSE [options |->
              Put([k \in DOMAIN opts \ {CONF_TURN_OFF_COMMAND, CONF_TURN_ON_COMMAND} |->
                      opts[k]],
                  "custom_commands", MigratedCommands(opts)),
          updated |-> TRUE]

\* Variant: the connection is closed and the data removed whatever the
\* platform unload returned.
UnloadResult_Always(unload_ok) == [closed |-> TRUE, popped |-> TRUE]

\* async_unload_entry, 171-178: whether it closes the connection and removes
\* the entry's data.
UnloadResult(unload_ok) == [closed |-> unload_ok, popped |-> unload_ok]

\* async_setup_entry, 139-168, after the migration: async_connect_androidtv
\* raises, returns no device (ConfigEntryNotReady, 148-149) or returns the
\* device; what the setup leaves.
SetupResult(conn) ==
    IF conn = "raise" THEN [outcome |-> "raised", stored |-> FALSE, listeners |-> 0]
    ELSE IF conn = "none"
    THEN [outcome |-> "ConfigEntryNotReady", stored |-> FALSE, listeners |-> 0]
    ELSE [outcome |-> "stored", stored |-> TRUE, listeners |-> 1]

\* No setup or unload has run; before is the options a setup found.
NoLifecycle ==
    [ op |-> "none", conn |-> "n/a", outcome |-> "none", migrated |-> FALSE,
      before |-> NoData, unload_ok |-> FALSE ]

NoListener == [op |-> "none", reloaded |-> FALSE]

\* A setup that connects (139-168): the device is built with the rules of the
\* options, a copy of the options is stored, and the platform adds a new
\* entity, whose async_added_to_hass reads them (media_player.py 304-315).
SetUp(opts) ==
    /\ setup_rules' = Get(opts, "state_detection_rules", NoData)
    /\ dev_opt' = opts
    /\ signal' = FALSE
    /\ ConfigProcessed(opts)
    /\ available' = TRUE
    /\ failed_connect_count' = 0
    /\ state' = None
    /\ app_id' = None
    /\ source' = None
    /\ app_name' = None
    /\ source_list' = NoneList
    /\ is_volume_muted' = None
    /\ volume_level' = None
    /\ hdmi_input' = None
    /\ adb_response' = None
    /\ adb_open' = TRUE
    /\ conn_result' = "ok"
    /\ last' = NoCall

\* hass.config_entries.async_reload with the new options in the entry: an
\* unload that succeeds (171-178), then a setup that connects; the setup
\* migrates the options first (142).
Reload(new_options) ==
    /\ options' = MigrateOptionsKey(new_options).options
    /\ SetUp(MigrateOptionsKey(new_options).options)

\* The hub sets up the entry, which is not loaded: async_setup_entry, 139-168.
\* conn is what async_connect_androidtv does.
SetupEntry(conn) ==
    /\ ~hass_data
    /\ LET m == MigrateOptionsKey(options)
           r == SetupResult(conn)
       IN  /\ options' = m.options
           /\ hass_data' = r.stored
           /\ update_listeners' = update_listeners + r.listeners
           /\ lifecycle' = [ op |-> "setup", conn |-> conn, outcome |-> r.outcome,
                             migrated |-> m.updated, before |-> options,
                             unload_ok |-> FALSE ]
           /\ IF r.outcome = "stored"
              THEN SetUp(m.options)
              ELSE /\ UNCHANGED <<dev_opt, setup_rules, signal, app_name_to_id, get_sources,
                                  screencap, custom_commands, exclude_unnamed_apps,
                                  app_id_to_name, available, failed_connect_count,
                                  attrVars, adb_open, conn_result, last>>
    /\ UNCHANGED <<device_class, adb_server_ip, link, flowVars, apps, cust_commands,
                   state_det_rules, conf_app_id, conf_cmd_id, conf_rule_id, step_id,
                   form, submitted, tasks, listener, twin, dev_muted, service>>

\* The hub unloads the loaded entry: async_unload_entry, 171-178.  unload_ok is
\* what async_unload_platforms returns; after an unload that succeeded the hub
\* drops the entry's update listeners and the entity is gone.
UnloadEntry(unload_ok) ==
    /\ hass_data
    /\ LET r == UnloadResult(unload_ok)
       IN  /\ adb_open' = IF r.closed THEN FALSE ELSE adb_open
           /\ hass_data' = ~r.popped
           /\ update_listeners' = IF unload_ok THEN 0 ELSE update_listeners
           /\ signal' = IF unload_ok THEN FALSE ELSE signal
    /\ lifecycle' = [NoLifecycle EXCEPT !.op = "unload", !.unload_ok = unload_ok]
    /\ UNCHANGED <<device_class, adb_server_ip, exclude_unnamed_apps, app_id_to_name,
                   available, failed_connect_count, attrVars, link, conn_result, last,
                   flowVars, optVars, tasks, dev_opt, setup_rules, listener, app_name_to_id,
                   get_sources, screencap, custom_commands, twin, dev_muted, service>>

\* The hub stores new options in the entry (they differ from the old ones) and
\* runs update_listener.
UpdateOptions(new_options) ==
    /\ new_options # options
    /\ LET r == UpdateListener(dev_opt, new_options)
       IN  /\ listener' = [op |-> "update_listener", reloaded |-> r.reload_opt]
           /\ IF r.reload_opt
              THEN Reload(new_options)
              ELSE /\ options' = new_options
                   /\ dev_opt' = r.dev_opt
                   /\ signal' = r.signal
                   /\ UNCHANGED <<setup_rules, app_name_to_id, get_sources, screencap,
                                  custom_commands, exclude_unnamed_apps, app_id_to_name,
                                  available, failed_connect_count, attrVars, adb_open,
                                  conn_result, last>>
    /\ UNCHANGED <<device_class, adb_server_ip, link, flowVars, apps, cust_commands,
                   state_det_rules, conf_app_id, conf_cmd_id, conf_rule_id, step_id,
                   form, submitted, tasks, twin, dev_muted, service, hass_data,
                   update_listeners, lifecycle>>

\* The dispatcher runs the entity's _process_config for the signal.
ProcessConfigOnSignal ==
    /\ signal
    /\ signal' = FALSE
    /\ ConfigProcessed(dev_opt)
    /\ listener' = [op |-> "process_config", reloaded |-> FALSE]
    /\ UNCHANGED <<device_class, adb_server_ip, available, failed_connect_count,
                   attrVars, adb_open, link, conn_result, last, flowVars, optVars,
                   tasks, dev_opt, setup_rules, twin, dev_muted, service, hass_data,
                   update_listeners, lifecycle>>

(***************************************************************************)
(* The entity after construction (ADBDevice.__init__, 214-274) and         *)
(* async_added_to_hass (304-315); the flow's variables are parked.         *)
(***************************************************************************)
\* No flow has been started and no entry exists.
FlowParked ==
    /\ entries = {}
    /\ flow = "none"
    /\ result = NoResult
    /\ probe = NoProbe

\* No options flow has been started; the entry has no options yet.
OptionsParked ==
    /\ apps = NoData
    /\ cust_commands = NoData
    /\ state_det_rules = NoData
    /\ conf_app_id = None
    /\ conf_cmd_id = None
    /\ conf_rule_id = None
    /\ step_id = "none"
    /\ form = NoForm
    /\ submitted = NoSubmission

\* The entry is loaded with these options: async_setup_entry has stored them and
\* built the device with their rules, the entity has read them.
Loaded(opts) ==
    LET p == ProcessConfig(opts)
    IN  /\ dev_opt = opts
        /\ setup_rules = Get(opts, "state_detection_rules", NoData)
        /\ signal = FALSE
        /\ listener = NoListener
        /\ app_id_to_name = p.app_id_to_name
        /\ app_name_to_id = p.app_name_to_id
        /\ get_sources = p.get_sources
        /\ exclude_unnamed_apps = p.exclude_unnamed_apps
        /\ screencap = p.screencap
        /\ custom_commands = p.custom_commands
        /\ hass_data = TRUE
        /\ update_listeners = 1
        /\ lifecycle = NoLifecycle

\* The entity's other fields after construction; the device is not muted.
EntityAfterInit ==
    /\ twin = TwinConstructed
    /\ dev_muted = "False"
    /\ service = NoService
    /\ available = TRUE
    /\ failed_connect_count = 0
    /\ state = None
    /\ app_id = None
    /\ source = None
    /\ app_name = None
    /\ source_list = NoneList
    /\ is_volume_muted = None
    /\ volume_level = None
    /\ hdmi_input = None
    /\ adb_response = None
    /\ adb_open = TRUE
    /\ link = "flaky"
    /\ conn_result = "ok"
    /\ last = NoCall

\* The entry's options name two apps and set exclude_unnamed_apps.
Init ==
    /\ device_class \in {"androidtv", "firetv"}
    /\ adb_server_ip \in BOOLEAN
    /\ options \in { Put(Put(NoData, "apps", ConfApps), "exclude_unnamed_apps", e) :
                        e \in BOOLEAN }
    /\ Loaded(options)
    /\ EntityAfterInit
    /\ FlowParked
    /\ OptionsParked
    /\ tasks = TasksIdle

\* What adb_shell returns where adb_command reads it (a shell command that
\* did not raise).
ShellResponses(command, out) ==
    IF command = "ls" /\ out = "ok" THEN {None, "  ", " out "} ELSE {None}

\* The inputs an update reads: adb_connect's result when the entity is
\* unavailable, the poll's outcome when it is (or has become) available, the
\* polled tuple when the poll did not raise.
UpdateInputs ==
    { i \in [conn : ConnectResults, out : Outcomes, t : Telemetry] :
        /\ available => i.conn
        /\ ~(available \/ i.conn) => i.out = "ok"
        /\ (~(available \/ i.conn) \/ i.out # "ok") =>
                i.t = CHOOSE k \in KnownTelemetry : k.state = "off" }

Update ==
    /\ \E i \in UpdateInputs :
          \/ AndroidTV_async_update(i.conn, i.out, i.t)
          \/ FireTV_async_update(i.conn, i.out, i.t)
    /\ UNCHANGED twin

Next ==
    \/ Update
    \/ \E out \in Outcomes : SimpleCommand(out)
    \/ \E out \in Outcomes : AdbScreencap(out)
    \/ \E src \in Sources :
          \E out \in (IF src \in {Str(<<"Netflix">>), Str(<<"!", "Netflix">>)}
                      THEN Outcomes ELSE {"ok"}) : SelectSource(src, out)
    \/ \E command \in {"HOME", "GET_PROPERTIES", "ls"}, out \in Outcomes :
          \E response \in ShellResponses(command, out) :
            AdbCommand(command, out, response)
    \/ \E out \in Outcomes :
          \E output \in (IF out = "ok" THEN {"", "out"} ELSE {""}) :
            LearnSendevent(out, output)
    \/ \E out \in Outcomes :
          \E level \in (IF out = "ok" THEN {None, "0.5"} ELSE {None}) :
            VolumeStep(out, level)
    \/ Heal

Spec == Init /\ [][Next]_vars

\* The calls that decide availability, for the liveness of recovery: the
\* update and the one-call commands (every other command reaches availability
\* through the same wrapper).
NextLive ==
    \/ Update
    \/ \E out \in Outcomes : SimpleCommand(out)
    \/ Heal

\* The hub polls the entity periodically (should_poll): updates keep happening.
SpecLive == Init /\ [][NextLive]_vars /\ WF_vars(Update)

\* The config flow alone: the entity is left as constructed.
InitFlow ==
    /\ device_class = "androidtv"
    /\ adb_server_ip = FALSE
    /\ options = NoData
    /\ Loaded(options)
    /\ EntityAfterInit
    /\ FlowParked
    /\ OptionsParked
    /\ tasks = TasksIdle

NextFlow ==
    \/ StartFlow
    \/ \E user_input \in UserInputs :
         \E conn \in ConnectOutcomesFor(user_input) : Submit(user_input, conn)

SpecFlow == InitFlow /\ [][NextFlow]_vars

\* The wrapped calls of one entity, interleaved at their awaits.
NextTasks ==
    \/ \E id \in TaskIds : CommandCalled(id)
    \/ UpdateCalled
    \/ \E conn \in ConnectResults : UpdateConnected(conn)
    \/ \E id \in TaskIds, out \in Outcomes :
          \E t \in (IF id = "update" /\ out = "ok" THEN Telemetry
                    ELSE {CHOOSE k \in KnownTelemetry : k.state = "off"}) :
            \E closes_now \in (IF out = "ok" THEN {FALSE} ELSE BOOLEAN) :
              CallReturned(id, out, t, closes_now)
    \/ \E id \in TaskIds : CallClosed(id)

SpecTasks == Init /\ [][NextTasks]_vars

\* An AndroidTV entity and a FireTV entity with the same configuration, polled
\* with the same adb_connect results and the same poll results.
InitTwins == Init /\ device_class = "androidtv"

NextTwins ==
    \/ \E i \in UpdateInputs : TwinUpdate(i.conn, i.out, i.t)
    \/ Heal

SpecTwins == InitTwins /\ [][NextTwins]_vars

\* The options flow alone, on an entry without options or with each option set.
WithOpt(d, key, value) == IF value = Absent THEN d ELSE Put(d, key, value)

InitFormData(sources, exclude, capture) ==
    Put(Put(Put(NoData, "get_sources", sources), "exclude_unnamed_apps", exclude),
        "screencap", capture)

EntryOptions ==
    { NoData,
      Put(Put(Put(InitFormData(TRUE, FALSE, TRUE),
                  "apps", Put(NoData, "app1", "N1")),
              "custom_commands", Put(NoData, "HOME", "c1")),
          "state_detection_rules", Put(NoData, "r1", JsonList(<<"standby">>))) }

\* The init form's schema, lines 226-251: the three switches always, at most
\* the selections the dropdowns offer.
InitInputs ==
    { InitFormData(b[1], b[2], b[3]) :
        b \in { <<TRUE, FALSE, TRUE>>, <<FALSE, TRUE, FALSE>>, <<FALSE, FALSE, TRUE>> } }
    \cup { Put(InitFormData(TRUE, FALSE, TRUE), "apps", a) :
              a \in {APPS_NEW_ID} \cup DOMAIN apps }
    \cup { Put(InitFormData(TRUE, FALSE, TRUE), "custom_commands", c) :
              c \in HA_CUSTOMIZABLE_COMMANDS }
    \cup { Put(InitFormData(TRUE, FALSE, TRUE), "state_detection_rules", r) :
              r \in {RULES_NEW_ID} \cup DOMAIN state_det_rules }
    \cup { Put(Put(Put(InitFormData(TRUE, FALSE, TRUE), "apps", APPS_NEW_ID),
                  "custom_commands", "HOME"), "state_detection_rules", RULES_NEW_ID),
           Put(Put(InitFormData(TRUE, FALSE, TRUE), "custom_commands", "BACK"),
               "state_detection_rules", RULES_NEW_ID) }

\* The apps form's schema, lines 273-283: an id field on the new-app form, a
\* delete switch on the others.
AppsInputs ==
    IF form.id = APPS_NEW_ID
    THEN { WithOpt(WithOpt(NoData, "app_name", n), "app_id", i) :
              n \in {Absent, "N1"}, i \in {Absent, "", "app1", "app2"} }
    ELSE { Put(WithOpt(NoData, "app_name", n), "app_delete", d) :
              n \in {Absent, "N1"}, d \in BOOLEAN }

\* The commands form's schema, lines 309-314
CommandsInputs == { WithOpt(NoData, "cmd_value", v) : v \in {Absent, "", "c1"} }

\* The rules form's schema, lines 351-356: an id field on the new-rule form, a
\* delete switch on the others; the values field has a default.
RulesInputs ==
    IF form.id = RULES_NEW_ID
    THEN { Put(Put(NoData, "rule_id", i), "rule_values", v) :
              i \in {"", "r1", "r2"}, v \in RuleStrings }
    ELSE { Put(Put(NoData, "rule_values", v), "rule_delete", d) :
              v \in RuleStrings, d \in BOOLEAN }

InitOptions ==
    /\ device_class = "androidtv"
    /\ adb_server_ip = FALSE
    /\ options \in EntryOptions
    /\ Loaded(options)
    /\ EntityAfterInit
    /\ FlowParked
    /\ OptionsParked
    /\ tasks = TasksIdle

NextOptions ==
    \/ StartOptions
    \/ \E user_input \in InitInputs : StepInit(user_input)
    \/ \E user_input \in AppsInputs : StepApps(user_input)
    \/ \E user_input \in CommandsInputs : StepCommands(user_input)
    \/ \E user_input \in RulesInputs : StepRules(user_input)

SpecOptions == InitOptions /\ [][NextOptions]_vars

(***************************************************************************)
(* Properties of the entity.                                               *)
(*                                                                         *)
(* `last` describes the wrapped call that has just returned, so a state    *)
(* predicate on `last` and the entity is a postcondition of that call.  A  *)
(* step that leaves link alone is a wrapped call, named by last'.op.       *)
(***************************************************************************)
UpdateStep == link' = link /\ last'.op = "async_update"

HAStates == {"off", "idle", "standby", "playing", "paused"}

\* C1: when the wrapped method (a command or async_update) raises one of
\* self.exceptions, the wrapper has closed the ADB connection, the entity is
\* unavailable, the call returned None and no exception reached the caller.
C1_ExpectedExceptionHandled ==
    (last.exc # "none" /\ Matches(last.exc, ExpectedExceptions(adb_server_ip)))
        => /\ last.closed
           /\ ~adb_open
           /\ ~available
           /\ last.ret = None
           /\ last.propagated = "none"

\* C1 witness: an update of an adb_shell entity whose poll raised
\* UnicodeDecodeError (a ValueError) and was closed.
C1_Witness ==
    /\ last.op = "async_update"
    /\ ~adb_server_ip
    /\ last.exc = "UnicodeDecodeError"
    /\ last.closed
    /\ ~available

\* C2: a command called while the entity is unavailable returns None, makes no
\* device call (no command call, no connect, no close) and changes neither
\* availability, the failed-connect count, the state nor any attribute; an
\* async_update called while unavailable does run (it attempts the connect).
C2_UnavailableCommandsAreSkipped ==
    [][ (~available /\ link' = link /\ last'.op # "none") =>
          IF last'.op = "async_update"
          THEN ~last'.skipped /\ last'.connect # "none"
          ELSE /\ last'.skipped
               /\ last'.ret = None
               /\ last'.calls = 0
               /\ last'.connect = "none"
               /\ ~last'.closed
               /\ last'.propagated = "none"
               /\ UNCHANGED <<available, failed_connect_count, attrVars, adb_open>>
      ]_vars

\* C2 witness: a screen capture asked of an unavailable entity was skipped.
C2_Witness ==
    /\ last.op = "screencap"
    /\ ~last.was_available
    /\ last.skipped
    /\ ~available

\* C3: an async_update of an unavailable entity attempts adb_connect once; on
\* success the entity is available, the counter is 0 and the device is polled in
\* the same update (and the entity is still available afterwards if the poll
\* returned a known state); on failure the counter grows by exactly 1, the entity
\* stays unavailable and the device is not polled.  An async_update of an
\* available entity attempts no connect.
C3_ReconnectInUpdate ==
    [][ UpdateStep =>
          IF available
          THEN last'.connect = "none"
          ELSE /\ last'.connect \in {"ok", "fail"}
               /\ last'.connect = "ok" =>
                    /\ last'.avail_mid
                    /\ failed_connect_count' = 0
                    /\ last'.polled /\ last'.calls = 1
                    /\ (last'.exc = "none" /\ last'.raw \in HAStates) => available'
               /\ last'.connect = "fail" =>
                    /\ failed_connect_count' = failed_connect_count + 1
                    /\ ~available'
                    /\ ~last'.polled /\ last'.calls = 0
      ]_vars

\* C3 witness: after a failed connect, a later update connected (without
\* logging errors), polled and left the entity available with the counter at 0.
C3_Witness ==
    /\ last.op = "async_update"
    /\ ~last.was_available
    /\ last.connect = "ok"
    /\ ~last.log_errors
    /\ last.polled
    /\ failed_connect_count = 0
    /\ available

\* C4: adb_connect is called with log_errors=True exactly when the previous
\* adb_connect did not fail (it succeeded, or it was the connect of setup): the
\* first attempt of a run logs, the later attempts of the run do not.
C4_LogErrorsOnFirstAttemptOnly ==
    [][ (UpdateStep /\ last'.connect # "none") =>
          (last'.log_errors <=> conn_result # "fail")
      ]_vars

\* C4 witness: a second consecutive failed attempt, made with log_errors=False.
C4_Witness ==
    /\ last.op = "async_update"
    /\ last.connect = "fail"
    /\ ~last.log_errors
    /\ failed_connect_count = 2

\* C5: once connects succeed, polls return known states and no call raises,
\* repeated updates make the entity available, and it remains available.
C5_RecoveryIsLive == [](link = "good" => <>[]available)

\* C5 witness: with the link good, an update reconnected an unavailable entity.
C5_Witness ==
    /\ link = "good"
    /\ last.op = "async_update"
    /\ ~last.was_available
    /\ last.connect = "ok"
    /\ available

\* C6: the entity state is always one of the five HA states or None; when a poll
\* returned a raw state outside the five, the state is None and the entity is
\* unavailable as the update returns, and an async_update that follows attempts
\* adb_connect.
C6_StateIsNormalized ==
    /\ [](state \in HAStates \cup {None})
    /\ []((last.op = "async_update" /\ last.raw \notin HAStates \cup {"n/a"})
            => state = None /\ ~available)
    /\ [][ (last.op = "async_update" /\ last.raw \notin HAStates \cup {"n/a"}
            /\ UpdateStep) => last'.connect # "none" ]_vars

\* C6 witness: a poll returned the raw state "stopped".
C6_Witness ==
    /\ last.op = "async_update"
    /\ last.raw = "stopped"
    /\ state = None
    /\ ~available

\* C7: when the wrapped method raises an exception that is neither
\* LockNotAcquiredException nor one of self.exceptions, the wrapper has closed
\* the connection and marked the entity unavailable, and that same exception
\* reaches the caller.
C7_UnexpectedExceptionReraised ==
    ( /\ last.exc # "none"
      /\ ~Matches(last.exc, {"LockNotAcquiredException"})
      /\ ~Matches(last.exc, ExpectedExceptions(adb_server_ip)) )
        => /\ last.closed
           /\ ~adb_open
           /\ ~available
           /\ last.propagated = last.exc

\* C7 witness: with an ADB server, a command raised ValueError, which is not
\* expected there.
C7_Witness ==
    /\ adb_server_ip
    /\ last.op = "simple_command"
    /\ last.exc = "ValueError"
    /\ last.propagated = "ValueError"
    /\ last.closed

(***************************************************************************)
(* Properties of the user step.                                            *)
(*                                                                         *)
(* While the flow is open the only step is a submission, so a step that    *)
(* starts with the flow open and changes the flow's variables is one:      *)
(* probe' holds its input and result' its result.                          *)
(***************************************************************************)
SubmitStep == flow = "open" /\ flowVars' # flowVars

HasKey(user_input) == Truthy(Get(user_input, "adbkey", None))
HasServer(user_input) == "adb_server_ip" \in DOMAIN user_input

\* The submitted key path names an existing file that can be read.
KeyReadable(user_input) ==
    Get(FileSystem, Expanduser(user_input["adbkey"]), "missing") = "readable file"

\* Valid input: not both a key and a server, the key (if any) a readable file,
\* the host not configured yet, and the device answers with a usable MAC that no
\* entry has.
ValidSubmission(user_input, conn, ents) ==
    /\ ~(HasKey(user_input) /\ HasServer(user_input))
    /\ HasKey(user_input) => KeyReadable(user_input)
    /\ \A e \in ents : e.title # user_input["host"]
    /\ conn.kind = "device"
    /\ \E mac \in {"a1:b1:c1:d1:e1:f1", "a2:b2:c2:d2:e2:f2"} :
          /\ GetAndroidtvMac(conn) = mac
          /\ \A e \in ents : e.unique_id # mac

\* The step created the entry: one more entry, titled with the host.
EntryCreated ==
    /\ result'.type = "create_entry"
    /\ result'.title = probe'.input["host"]
    /\ flow' = "created"
    /\ Cardinality(entries') = Cardinality(entries) + 1
    /\ entries \subseteq entries'

\* C8: a submission with both an ADB key and an ADB server IP shows the user
\* form again with base error key_and_server, creates no entry and leaves the
\* flow open; a valid submission made to that form creates the entry.
C8_KeyAndServerRejected ==
    [][ SubmitStep =>
          /\ (HasKey(probe'.input) /\ HasServer(probe'.input)) =>
                /\ result' = ShowSetupForm("key_and_server")
                /\ entries' = entries
                /\ flow' = "open"
          /\ (result.error = "key_and_server"
              /\ ValidSubmission(probe'.input, probe'.conn, entries)) => EntryCreated
      ]_vars

\* C8 witness: an entry was created by a submission to the form that showed
\* key_and_server.
C8_Witness ==
    /\ result.type = "create_entry"
    /\ probe.after = "key_and_server"
    /\ flow = "created"

\* C9 as stated: whenever the submitted key path is not an existing readable
\* file, the form comes back with adbkey_not_file.
C9_AsStated ==
    [][ (SubmitStep /\ HasKey(probe'.input) /\ ~KeyReadable(probe'.input)) =>
          result' = ShowSetupForm("adbkey_not_file")
      ]_vars

\* C9: a submission without an ADB server IP whose (non-empty) ADB key path is
\* not an existing readable file shows the user form again with base error
\* adbkey_not_file, creates no entry and leaves the flow open; a valid
\* submission made to that form creates the entry.
C9_KeyNotFileRejected ==
    [][ SubmitStep =>
          /\ (HasKey(probe'.input) /\ ~HasServer(probe'.input)
              /\ ~KeyReadable(probe'.input)) =>
                /\ result' = ShowSetupForm("adbkey_not_file")
                /\ entries' = entries
                /\ flow' = "open"
          /\ (result.error = "adbkey_not_file"
              /\ ValidSubmission(probe'.input, probe'.conn, entries)) => EntryCreated
      ]_vars

\* C9 witness: an entry was created by a submission to the form that showed
\* adbkey_not_file.
C9_Witness ==
    /\ result.type = "create_entry"
    /\ probe.after = "adbkey_not_file"
    /\ flow = "created"

\* C10 as stated: whenever an entry with the submitted host exists, the flow
\* aborts with already_configured, whatever the other fields are.
C10_AsStated ==
    [][ (SubmitStep /\ \E e \in entries : e.title = probe'.input["host"]) =>
          /\ result' = Abort("already_configured")
          /\ entries' = entries
      ]_vars

\* C10: when an entry with the submitted host exists and the submission passes
\* the two input checks (not both key and server; the key, if any, a readable
\* file), the flow aborts with already_configured and creates no entry, without
\* a connection attempt, whatever the device would answer.
C10_HostAlreadyConfigured ==
    [][ ( /\ SubmitStep
          /\ \E e \in entries : e.title = probe'.input["host"]
          /\ ~(HasKey(probe'.input) /\ HasServer(probe'.input))
          /\ HasKey(probe'.input) => KeyReadable(probe'.input) ) =>
          /\ result' = Abort("already_configured")
          /\ entries' = entries
          /\ flow' = "aborted"
          /\ probe'.attempts = 0
      ]_vars

\* C10 witness: a submission with a readable key for a host that has an entry
\* was aborted before any connection attempt.
C10_Witness ==
    /\ result = Abort("already_configured")
    /\ probe.attempts = 0
    /\ HasKey(probe.input)
    /\ \E e \in entries : e.title = probe.input["host"]

\* The submission gets as far as the connection: it passes the two input
\* checks and no entry has its host.
ReachesConnection(user_input, ents) ==
    /\ ~(HasKey(user_input) /\ HasServer(user_input))
    /\ HasKey(user_input) => KeyReadable(user_input)
    /\ \A e \in ents : e.data["host"] # user_input["host"]

\* An address the device reports that cannot identify it: missing, or the
\* broadcast address.
NoValidMac(mac) == mac \in {None, ""} \/ FormatMac(mac) = "ff:ff:ff:ff:ff:ff"

\* C11: when the connection succeeds and an entry (of any host) already has the
\* device's MAC-derived unique id, the flow aborts with already_configured and
\* creates no entry; and no two entries ever share a unique id.
C11_UniqueIdNotDuplicated ==
    /\ [](\A e1, e2 \in entries : e1.unique_id = e2.unique_id => e1 = e2)
    /\ [][ ( /\ SubmitStep
             /\ ReachesConnection(probe'.input, entries)
             /\ probe'.conn.kind = "device"
             /\ \E e \in entries : e.unique_id = GetAndroidtvMac(probe'.conn) ) =>
             /\ result' = Abort("already_configured")
             /\ entries' = entries
             /\ flow' = "aborted"
         ]_vars

\* C11 witness: a device whose unique id belongs to the entry of another host
\* connected, and the flow was aborted.
C11_Witness ==
    /\ result = Abort("already_configured")
    /\ probe.attempts = 1
    /\ probe.conn.kind = "device"
    /\ \E e \in entries : /\ e.unique_id = GetAndroidtvMac(probe.conn)
                           /\ e.data["host"] # probe.input["host"]

\* C12: when the connection succeeds and the device reports neither a valid
\* Ethernet MAC nor a valid WiFi MAC, the flow aborts with invalid_unique_id and
\* creates no entry.
C12_InvalidMacAborts ==
    [][ ( /\ SubmitStep
          /\ ReachesConnection(probe'.input, entries)
          /\ probe'.conn.kind = "device"
          /\ NoValidMac(probe'.conn.ethmac)
          /\ NoValidMac(probe'.conn.wifimac) ) =>
          /\ result' = Abort("invalid_unique_id")
          /\ entries' = entries
          /\ flow' = "aborted"
      ]_vars

\* C12 witness: a device that reports only the broadcast address connected, and
\* the flow was aborted with invalid_unique_id.
C12_Witness ==
    /\ result = Abort("invalid_unique_id")
    /\ probe.conn.kind = "device"
    /\ probe.conn.ethmac = "ff:ff:ff:ff:ff:ff"
    /\ probe.attempts = 1

\* C13: a connection attempt that returns no device shows the user form again
\* with base error cannot_connect, one that raises shows it with base error
\* unknown; no entry is created and the flow stays open, and a submission to
\* that form whose connection succeeds (with a usable, unused MAC) creates the
\* entry, however many failed submissions came before.
C13_ConnectErrorsShowForm ==
    [][ SubmitStep =>
          /\ (ReachesConnection(probe'.input, entries) /\ probe'.conn.kind = "none") =>
                /\ result' = ShowSetupForm("cannot_connect")
                /\ entries' = entries
                /\ flow' = "open"
          /\ (ReachesConnection(probe'.input, entries) /\ probe'.conn.kind = "raise") =>
                /\ result' = ShowSetupForm("unknown")
                /\ entries' = entries
                /\ flow' = "open"
          /\ (result.error \in {"cannot_connect", "unknown"}
              /\ ValidSubmission(probe'.input, probe'.conn, entries)) => EntryCreated
      ]_vars

\* C13 witness: an entry was created by a submission to the form that showed
\* unknown.
C13_Witness ==
    /\ result.type = "create_entry"
    /\ probe.after = "unknown"
    /\ flow = "created"

\* C14: a submission that passes validation, connects and finds a valid MAC
\* that no entry has creates an entry titled with the host whose data is the
\* submitted input, with the ADB server port present only when an ADB server IP
\* was submitted.
C14_EntryDataIsInput ==
    [][ (SubmitStep /\ ValidSubmission(probe'.input, probe'.conn, entries)) =>
          LET input == probe'.input
              kept == IF HasServer(input) THEN DOMAIN input
                      ELSE (DOMAIN input) \ {"adb_server_port"}
          IN  /\ EntryCreated
              /\ result'.title = input["host"]
              /\ DOMAIN result'.data = kept
              /\ \A k \in kept : result'.data[k] = input[k]
              /\ \E e \in entries' \ entries :
                    e.title = input["host"] /\ e.data = result'.data
      ]_vars

\* C14 witness: an entry was created from a submission that carried an ADB
\* server port without an ADB server IP, and the port is not in its data.
C14_Witness ==
    /\ result.type = "create_entry"
    /\ "adb_server_port" \in DOMAIN probe.input
    /\ "adb_server_ip" \notin DOMAIN probe.input
    /\ "adb_server_port" \notin DOMAIN result.data

(***************************************************************************)
(* Properties of the options flow.                                         *)
(*                                                                         *)
(* With the form of step s showing, the only step is a submission to s:    *)
(* submitted' holds its input.  The staged mappings are compared with what *)
(* the submitted edit says, step by step; the saved options with the       *)
(* staged mappings at the final submission.                                *)
(***************************************************************************)
OptionsStep(s) == step_id = s /\ optVars' # optVars

\* The final submission: an init form without a selection.
SaveStep ==
    /\ OptionsStep("init")
    /\ \A k \in {"apps", "custom_commands", "state_detection_rules"} :
          k \notin DOMAIN submitted'.input

\* The id an apps or rules form is about: the one typed into the new form, else
\* the one the form was opened for.
EditedId(new_id, key) ==
    IF form.id = new_id THEN Get(submitted'.input, key, "") ELSE form.id

\* d and e agree outside id.
SameExcept(d, e, id) ==
    /\ (DOMAIN d) \ {id} = (DOMAIN e) \ {id}
    /\ \A k \in (DOMAIN d) \ {id} : d[k] = e[k]

\* C15: the flow starts from the entry's apps mapping; each apps sub-form edit
\* changes exactly the edited id (a delete removes it, an add or rename maps it
\* to the submitted name); no other step touches the staged apps; and the final
\* init submission saves the staged apps and the three switches as submitted.
C15_AppsEditsAreSaved ==
    [][ /\ OptionsStep("none") => apps' = Get(options, "apps", NoData)
        /\ OptionsStep("apps") =>
              LET input == submitted'.input
                  id == EditedId(APPS_NEW_ID, "app_id")
              IN  /\ id = "" => apps' = apps
                  /\ id # "" => SameExcept(apps', apps, id)
                  /\ (id # "" /\ Get(input, "app_delete", FALSE)) => id \notin DOMAIN apps'
                  /\ (id # "" /\ ~Get(input, "app_delete", FALSE)) =>
                        /\ id \in DOMAIN apps'
                        /\ apps'[id] = Get(input, "app_name", "")
        /\ (OptionsStep("commands") \/ OptionsStep("rules") \/ OptionsStep("init")) =>
              apps' = apps
        /\ SaveStep =>
              /\ step_id' = "saved"
              /\ Get(options', "apps", NoData) = apps
              /\ \A k \in {"get_sources", "exclude_unnamed_apps", "screencap"} :
                    k \in DOMAIN options' /\ options'[k] = submitted'.input[k]
      ]_vars

\* C15 witness: options were saved whose apps map app1 to the empty name and
\* app2 to N1 (two edits at least), with get_sources switched off.
C15_Witness ==
    /\ step_id = "saved"
    /\ Get(options, "apps", NoData) = Put(Put(NoData, "app1", ""), "app2", "N1")
    /\ options["get_sources"] = FALSE

\* C16: a commands sub-form is about the command selected on the init form; a
\* non-empty value sets that command, an empty or missing value removes it (or
\* changes nothing if it was not set); the other commands stay, the flow
\* returns to the init form, and the final init submission saves the staged
\* commands.
C16_CommandsEdits ==
    [][ /\ (OptionsStep("init") /\ step_id' = "commands") =>
              /\ form'.id = submitted'.input["custom_commands"]
              /\ cust_commands' = cust_commands
        /\ OptionsStep("commands") =>
              LET value == Get(submitted'.input, "cmd_value", "")
              IN  /\ step_id' = "init"
                  /\ SameExcept(cust_commands', cust_commands, form.id)
                  /\ value # "" => /\ form.id \in DOMAIN cust_commands'
                                   /\ cust_commands'[form.id] = value
                  /\ value = "" => form.id \notin DOMAIN cust_commands'
        /\ SaveStep => Get(options', "custom_commands", NoData) = cust_commands
      ]_vars

\* C16 witness: an empty value was submitted for HOME, which the entry has set;
\* HOME is no longer staged and the init form is showing.
C16_Witness ==
    /\ submitted.step = "commands"
    /\ Get(submitted.input, "cmd_value", "") = ""
    /\ conf_cmd_id = "HOME"
    /\ "HOME" \in DOMAIN Get(options, "custom_commands", NoData)
    /\ "HOME" \notin DOMAIN cust_commands
    /\ step_id = "init"

\* Rule values that are not valid JSON, or that the validator refuses.
InvalidRuleText(text) == text \in {"{bad", "[\"sleeping\"]"}

\* What valid rule values are stored as: always a list.
ExpectedRules(text) ==
    IF text = "\"idle\"" THEN JsonList(<<"idle">>) ELSE JsonList(<<"standby">>)

\* C17 as stated: whenever the submitted rule values are invalid, the rules
\* form comes back with invalid_det_rules and the staged rules are unchanged.
C17_AsStated ==
    [][ (OptionsStep("rules") /\ InvalidRuleText(submitted'.input["rule_values"])) =>
          /\ step_id' = "rules"
          /\ form'.errors = "invalid_det_rules"
          /\ state_det_rules' = state_det_rules
      ]_vars

\* C17: a rules submission with a non-empty rule id and without the delete
\* switch whose values are invalid shows the rules form again with base error
\* invalid_det_rules and leaves the staged rules unchanged; a submission to
\* that form with valid values stores them, as a list, under the rule id and
\* returns to the init form.
C17_InvalidRulesRejected ==
    [][ OptionsStep("rules") =>
          LET input == submitted'.input
              id == EditedId(RULES_NEW_ID, "rule_id")
              edit == id # "" /\ ~Get(input, "rule_delete", FALSE)
          IN  /\ (edit /\ InvalidRuleText(input["rule_values"])) =>
                    /\ step_id' = "rules"
                    /\ form'.errors = "invalid_det_rules"
                    /\ form'.id = form.id
                    /\ state_det_rules' = state_det_rules
              /\ (edit /\ form.errors = "invalid_det_rules"
                  /\ input["rule_values"] \in {"\"idle\"", "[\"standby\"]"}) =>
                    /\ step_id' = "init"
                    /\ state_det_rules' =
                          Put(state_det_rules, id, ExpectedRules(input["rule_values"]))
      ]_vars

\* C17 witness: after a rejected submission, the value "idle" (not a list) was
\* submitted for the new rule r2 and is staged as a list.
C17_Witness ==
    /\ submitted.step = "rules"
    /\ submitted.errors = "invalid_det_rules"
    /\ submitted.input["rule_values"] = "\"idle\""
    /\ step_id = "init"
    /\ "r2" \in DOMAIN state_det_rules
    /\ state_det_rules["r2"] = JsonList(<<"idle">>)

\* The entity's name-to-id mapping, and the app id a name stands for.
NameToId == AppNameToId(app_id_to_name, ConfApps)
IdOf(name) == IF name \in DOMAIN NameToId THEN NameToId[name] ELSE name

\* name is what is left of chars after the leading '!' and the whitespace
\* that follows it.
IsStoppedName(chars, name) ==
    \E k \in 1..Len(chars) :
        /\ chars[1] = "!"
        /\ \A i \in 2..k : chars[i] \in {" ", "\t"}
        /\ k < Len(chars) => chars[k + 1] \notin {" ", "\t"}
        /\ name = Join(SubSeq(chars, k + 1, Len(chars)))

\* C18: on an available entity, async_select_source with a str that does not
\* start with '!' asks for exactly one launch (of the id the name maps to, or
\* of the name itself) and no stop; with a str that starts with '!' it asks
\* for exactly one stop, of the id of the rest without its leading whitespace,
\* and no launch.
C18_SelectSource ==
    [][ (available /\ link' = link /\ last'.op = "select_source"
         /\ last'.was_available) =>
          LET chars == last'.src.chars
          IN  /\ (last'.src.isstr /\ (chars = <<>> \/ chars[1] # "!")) =>
                    /\ last'.launched = <<IdOf(Join(chars))>>
                    /\ last'.stopped = <<>>
                    /\ last'.calls = 1
              /\ (last'.src.isstr /\ chars # <<>> /\ chars[1] = "!") =>
                    /\ last'.launched = <<>>
                    /\ last'.calls = 1
                    /\ \E name \in {"", "Netflix", "My App", "com.other.app"} :
                          /\ IsStoppedName(chars, name)
                          /\ last'.stopped = <<IdOf(name)>>
      ]_vars

\* C18 witness: the source "! \tcom.other.app", which is no app's name, was
\* selected on an available entity: com.other.app was stopped, nothing launched.
C18_Witness ==
    /\ last.op = "select_source"
    /\ last.was_available
    /\ last.src = Str(<<"!", " ", "\t", "com.other.app">>)
    /\ last.stopped = <<"com.other.app">>
    /\ last.launched = <<>>
    /\ last.exc = "none"

\* C19: a wrapped call whose device call raised LockNotAcquiredException
\* returns None, lets nothing propagate and does not close the connection;
\* availability, the failed-connect count and the connection are as the method
\* left them (as before the call, or as the successful reconnect of the same
\* update set them), and no attribute changes.
C19_LockNotAcquiredSkips ==
    [][ (link' = link /\ last'.exc = "LockNotAcquiredException") =>
          /\ last'.ret = None
          /\ last'.propagated = "none"
          /\ ~last'.closed
          /\ available' = last'.avail_mid
          /\ attrVars' = attrVars
          /\ last'.connect \in {"none", "ok"}
          /\ last'.connect = "none" =>
                /\ available' = available
                /\ adb_open' = adb_open
                /\ failed_connect_count' = failed_connect_count
          /\ last'.connect = "ok" =>
                /\ available'
                /\ adb_open'
                /\ failed_connect_count' = 0
      ]_vars

\* C19 witness: a command on an available entity met LockNotAcquiredException
\* and the entity is still available, its connection open.
C19_Witness ==
    /\ last.exc = "LockNotAcquiredException"
    /\ last.op = "simple_command"
    /\ last.was_available
    /\ available
    /\ adb_open
    /\ ~last.closed

\* C20: however async_update and the commands interleave, whenever no wrapped
\* call is in progress and the entity is available, the connection has not been
\* closed by the wrapper since the last successful adb_connect (or since setup).
C20_AvailableMeansNotClosed ==
    ((\A id \in TaskIds : tasks[id].pc = "idle") /\ available) => adb_open

\* C20 witness: no call is in progress and the entity is available with its
\* connection open, after the latest calls of both commands each closed the
\* connection and the update reconnected.
C20_Witness ==
    /\ \A id \in TaskIds : tasks[id].pc = "idle"
    /\ available
    /\ adb_open
    /\ tasks["c1"].closed
    /\ tasks["c2"].closed
    /\ conn_result = "ok"
    /\ state # None

(***************************************************************************)
(* Claims C21-C30.                                                         *)
(***************************************************************************)
\* A command (not async_update) passes the wrapper's availability test and
\* begins its device call in this step.
CommandBegins(id) == id # "update" /\ tasks[id].pc = "idle" /\ tasks'[id].pc = "call"

\* C21: for any interleaving of wrapped calls on the same entity, no command
\* other than async_update begins its device call after the wrapper has closed
\* the ADB connection and before the next successful adb_connect.
C21_AsStated ==
    [][\A id \in TaskIds : CommandBegins(id) => adb_open]_vars

\* C22: in every reachable state the failed-connect count is a non-negative
\* integer and the entity is unavailable whenever it is greater than 0; it
\* starts at 0, a failed adb_connect adds 1 to it, a successful adb_connect
\* sets it to 0 and nothing else changes it, so it equals the number of failed
\* adb_connect attempts since the last successful one (or since setup).
C22_FailedConnectCount ==
    /\ failed_connect_count = 0
    /\ [](failed_connect_count \in Nat /\ (failed_connect_count > 0 => ~available))
    /\ [][ failed_connect_count' =
              IF UpdateStep /\ last'.connect = "fail" THEN failed_connect_count + 1
              ELSE IF UpdateStep /\ last'.connect = "ok" THEN 0
              ELSE failed_connect_count ]_vars

\* C22 witness: two adb_connect attempts in a row have failed.
C22_Witness ==
    /\ failed_connect_count = 2
    /\ ~available
    /\ last.op = "async_update"
    /\ last.connect = "fail"
    /\ ~last.log_errors

\* The app is listed after a poll: it has a non-empty name, or it has no name
\* at all and unnamed apps are not excluded.
IsListed(a) ==
    IF a \in DOMAIN app_id_to_name THEN app_id_to_name[a] # "" ELSE ~exclude_unnamed_apps

\* The entries the source list is to have for these running apps.
ExpectedSourceList(running) ==
    LET listed == SelectSeq(running, IsListed)
    IN  [ i \in 1..Len(listed) |->
            IF listed[i] \in DOMAIN app_id_to_name THEN app_id_to_name[listed[i]]
            ELSE listed[i] ]

\* C24: after a completed poll the source list is None if the device reported
\* no running apps; otherwise it holds, in the order of the running apps, the
\* name of each app with a non-empty name and the raw id of each app without a
\* name when exclude_unnamed_apps is off; it never holds an empty or None
\* entry, and with exclude_unnamed_apps on every entry is a configured name.
C24_SourceList ==
    [][ (UpdateStep /\ last'.polled /\ last'.exc = "none") =>
           IF last'.running.kind = "None" \/ last'.running.items = <<>>
           THEN source_list' = NoneList
           ELSE /\ source_list' = ListOf(ExpectedSourceList(last'.running.items))
                /\ \A i \in 1..Len(source_list'.items) :
                     /\ source_list'.items[i] \notin {"", None}
                     /\ exclude_unnamed_apps =>
                          \E a \in DOMAIN app_id_to_name :
                             app_id_to_name[a] = source_list'.items[i] ]_vars

\* C24 witness: with exclude_unnamed_apps off, a poll reported an unnamed app,
\* an app with an empty name and a named app; the list holds the first by its
\* id and the third by its name.
C24_Witness ==
    /\ last.op = "async_update"
    /\ last.polled
    /\ last.exc = "none"
    /\ ~exclude_unnamed_apps
    /\ last.running = ListOf(<<"com.unnamed.app", "com.blank.app", "com.custom.app">>)
    /\ source_list = ListOf(<<"com.unnamed.app", "My App">>)

\* The address is present and is not the broadcast address.
UsableMac(mac) == mac \notin {None, ""} /\ FormatMac(mac) # "ff:ff:ff:ff:ff:ff"

\* The unique id the device's properties are to give.
ExpectedMac(dev_props) ==
    IF UsableMac(dev_props.ethmac) THEN FormatMac(dev_props.ethmac)
    ELSE IF UsableMac(dev_props.wifimac) THEN FormatMac(dev_props.wifimac)
    ELSE None

\* C26: get_androidtv_mac returns the formatted Ethernet MAC when it is present
\* and not ff:ff:ff:ff:ff:ff, otherwise the formatted WiFi MAC when it is
\* present and not ff:ff:ff:ff:ff:ff, otherwise None: a submission that
\* connects to a device aborts with invalid_unique_id exactly when that value
\* is None, aborts with already_configured when an entry has that value as its
\* unique id, and otherwise creates an entry with that value as its unique id.
C26_GetAndroidtvMac ==
    [][ (SubmitStep /\ probe'.attempts = 1 /\ probe'.conn.kind = "device") =>
          LET mac == ExpectedMac(probe'.conn)
          IN  IF mac = None
              THEN result' = Abort("invalid_unique_id") /\ entries' = entries
              ELSE IF \E e \in entries : e.unique_id = mac
              THEN result' = Abort("already_configured") /\ entries' = entries
              ELSE /\ result'.type = "create_entry"
                   /\ \E e \in entries' \ entries : e.unique_id = mac
      ]_vars

\* C26 witness: the device reported the broadcast address as its Ethernet MAC
\* and a usable WiFi MAC, and the entry was created with the WiFi MAC as its
\* unique id.
C26_Witness ==
    /\ flow = "created"
    /\ probe.conn = Device("FF-FF-FF-FF-FF-FF", "a2:b2:c2:d2:e2:f2")
    /\ \E e \in entries : /\ e.unique_id = "a2:b2:c2:d2:e2:f2"
                           /\ e.title = probe.input["host"]

\* C27: no connection to the device is attempted for a submission that is
\* rejected with key_and_server or adbkey_not_file or that aborts because its
\* host is already configured; the connection is attempted only after the three
\* checks have passed, and then exactly once.
C27_ConnectAfterChecks ==
    [][ SubmitStep =>
          /\ probe'.attempts = IF ReachesConnection(probe'.input, entries) THEN 1 ELSE 0
          /\ (result'.type = "form" /\ result'.error \in {"key_and_server", "adbkey_not_file"})
                => probe'.attempts = 0
          /\ (result' = Abort("already_configured")
                /\ \E e \in entries : e.data["host"] = probe'.input["host"])
                => probe'.attempts = 0
      ]_vars

\* C27 witness: a submission with a readable key and no server was aborted
\* because its host is configured, without a connection attempt and without
\* a close.
C27_Witness ==
    /\ flow = "aborted"
    /\ result = Abort("already_configured")
    /\ HasKey(probe.input) /\ KeyReadable(probe.input) /\ ~HasServer(probe.input)
    /\ \E e \in entries : e.data["host"] = probe.input["host"]
    /\ probe.attempts = 0
    /\ probe.closes = 0

\* C28: whenever the probe of a submission obtained a connected device, the
\* step closed that connection once before it returned, whether it created the
\* entry, aborted with invalid_unique_id or aborted with already_configured.
C28_ProbeIsClosed ==
    [][ (SubmitStep /\ probe'.attempts = 1 /\ probe'.conn.kind = "device") =>
          /\ probe'.closes = 1
          /\ \/ result'.type = "create_entry"
             \/ result' = Abort("invalid_unique_id")
             \/ result' = Abort("already_configured")
      ]_vars

\* C28 witness: the probe connected to a device whose unique id an entry of
\* another host already has; the step aborted and the connection was closed.
C28_Witness ==
    /\ result = Abort("already_configured")
    /\ probe.conn.kind = "device"
    /\ probe.attempts = 1
    /\ probe.closes = 1
    /\ \A e \in entries : e.data["host"] # probe.input["host"]

\* C23: polled with the same adb_connect results and the same poll results
\* from the same starting state, AndroidTVDevice.async_update and
\* FireTVDevice.async_update leave the same availability, failed-connect count,
\* normalized state, app id, source, source list and HDMI input after every
\* step.
C23_UpdatesAgree ==
    /\ twin.available = available
    /\ twin.failed_connect_count = failed_connect_count
    /\ twin.state = state
    /\ twin.app_id = app_id
    /\ twin.source = source
    /\ twin.source_list = source_list
    /\ twin.hdmi_input = hdmi_input

\* C23 witness: both entities have reconnected after a failed connect and then
\* polled a paused device with three running apps and, before that, a device
\* that reported an HDMI input.
C23_Witness ==
    /\ last.op = "async_update"
    /\ last.polled
    /\ last.exc = "none"
    /\ conn_result = "ok"
    /\ twin.available
    /\ twin.state = "paused"
    /\ twin.source = "com.unnamed.app"
    /\ twin.source_list.kind = "list"
    /\ Len(twin.source_list.items) >= 2
    /\ app_name = "com.unnamed.app"
    /\ is_volume_muted = "True"

(***************************************************************************)
(* The loaded entry alone: the hub stores options that the options flow    *)
(* saved, update_listener runs, the entity handles the signal.             *)
(***************************************************************************)
AppsSamples ==
    { NoData, ConfApps,
      [a \in {"com.amazon.avod"} |-> "Netflix"],
      [a \in {"com.custom.netflix"} |-> "Netflix"] }

RulesSamples ==
    { NoData,
      Put(NoData, "r1", JsonList(<<"standby">>)),
      Put(NoData, "r1", JsonList(<<"idle">>)),
      Put(Put(NoData, "r1", JsonList(<<"standby">>)), "r2", JsonList(<<"idle">>)) }

\* What _save_config hands the hub for these switches, apps, commands and rules.
SavedOptions ==
    { SaveConfig(InitFormData(b[1], b[2], b[3]), a, c, r) :
        b \in { <<TRUE, FALSE, TRUE>>, <<FALSE, TRUE, FALSE>> },
        a \in AppsSamples,
        c \in { NoData, Put(NoData, "HOME", "c1") },
        r \in RulesSamples }

\* The entry is set up without options or with a rule.
InitLoaded ==
    /\ device_class = "androidtv"
    /\ adb_server_ip = FALSE
    /\ options \in { NoData,
                     SaveConfig(InitFormData(TRUE, FALSE, TRUE), NoData, NoData,
                                Put(NoData, "r1", JsonList(<<"standby">>))) }
    /\ Loaded(options)
    /\ EntityAfterInit
    /\ FlowParked
    /\ OptionsParked
    /\ tasks = TasksIdle

NextLoaded ==
    \/ \E new_options \in SavedOptions : UpdateOptions(new_options)
    \/ ProcessConfigOnSignal

SpecLoaded == InitLoaded /\ [][NextLoaded]_vars

\* The apps option the entity last read, and whether its names are pairwise
\* distinct.
UserApps == Get(dev_opt, "apps", NoData)
DistinctNames(a) == \A i, j \in DOMAIN a : a[i] = a[j] => i = j

\* C25: once _process_config has read the options (no signal is pending), for
\* every app id of the apps option with name N (the names of the option being
\* pairwise distinct) the name-to-id mapping sends N to that app id, even when
\* a built-in app has the same name, and the id-to-name mapping sends the app
\* id to N.
C25_OverriddenAppsReflected ==
    (~signal /\ DistinctNames(UserApps)) =>
        \A id \in DOMAIN UserApps :
            /\ UserApps[id] \in DOMAIN app_name_to_id
            /\ app_name_to_id[UserApps[id]] = id
            /\ id \in DOMAIN app_id_to_name
            /\ app_id_to_name[id] = UserApps[id]

\* C25 witness: the option gives the first built-in app the name of a later
\* built-in app; after the signal was handled that name leads to the first.
C25_Witness ==
    /\ ~signal
    /\ listener.op = "process_config"
    /\ UserApps = [a \in {"com.amazon.avod"} |-> "Netflix"]
    /\ Get(app_id_to_name, "com.netflix.ninja", None) = "Netflix"
    /\ Get(app_name_to_id, "Netflix", None) = "com.amazon.avod"

\* The state-detection rules of these options (none: the empty dict).
RulesOf(opts) == Get(opts, "state_detection_rules", NoData)

\* The hub stores new options and update_listener runs.
ListenerStep == options' # options

\* C29: whenever the options of a loaded entry are updated so that the
\* state-detection rules differ from the rules the entry was set up with (a
\* rule added, changed or removed, or all rules removed), update_listener
\* reloads the config entry.
C29_AsStated ==
    [][ (ListenerStep /\ RulesOf(options') # setup_rules) => listener'.reloaded ]_vars

\* The entity's configuration after the step is what these options say.
ConfigEquals(opts) ==
    LET a == Get(opts, "apps", NoData)
        c == Get(opts, "custom_commands", NoData)
    IN  /\ DOMAIN app_id_to_name' = DOMAIN APPS \cup DOMAIN a
        /\ \A id \in DOMAIN a : app_id_to_name'[id] = a[id]
        /\ \A id \in DOMAIN APPS \ DOMAIN a : app_id_to_name'[id] = APPS[id]
        /\ \A id \in DOMAIN a : Get(app_name_to_id', a[id], None) = id
        /\ get_sources' = Get(opts, "get_sources", DEFAULT_GET_SOURCES)
        /\ exclude_unnamed_apps' =
              Get(opts, "exclude_unnamed_apps", DEFAULT_EXCLUDE_UNNAMED_APPS)
        /\ screencap' = Get(opts, "screencap", DEFAULT_SCREENCAP)
        /\ \A cmd \in HA_CUSTOMIZABLE_COMMANDS : custom_commands'[cmd] = Get(c, cmd, None)

\* C30: when the options of a loaded entry are updated without any change to
\* the state-detection rules, update_listener does not reload the entry: it
\* replaces the stored options by the new options and signals the entity; and
\* when the entity handles the signal, its app mappings, get_sources,
\* exclude_unnamed_apps, screencap and custom commands become those of the new
\* options.
C30_OptionsUpdateWithoutReload ==
    /\ [][ (ListenerStep /\ RulesOf(options') = RulesOf(options)) =>
              /\ ~listener'.reloaded
              /\ dev_opt' = options'
              /\ signal'
              /\ setup_rules' = setup_rules ]_vars
    /\ [][ (signal /\ ~signal' /\ listener'.op = "process_config") =>
              ConfigEquals(options') ]_vars

\* C30 witness: an entry set up with a rule got options with the same rule,
\* other switches, two apps and a custom command; the signal has been handled.
C30_Witness ==
    /\ listener.op = "process_config"
    /\ ~signal
    /\ setup_rules = Put(NoData, "r1", JsonList(<<"standby">>))
    /\ RulesOf(options) = setup_rules
    /\ dev_opt = options
    /\ ~screencap
    /\ ~get_sources
    /\ exclude_unnamed_apps
    /\ custom_commands["HOME"] = "c1"
    /\ Get(app_id_to_name, "com.custom.app", None) = "My App"
    /\ Get(app_name_to_id, "My App", None) = "com.custom.app"

(***************************************************************************)
(* The entry's lifecycle alone: the hub sets up an entry that is not       *)
(* loaded and unloads a loaded one.                                        *)
(***************************************************************************)
\* Options as an older version of the component or the options flow left them:
\* with or without the old keys, custom commands and other options.
StoredOptions ==
    LET base == { NoData,
                  Put(InitFormData(TRUE, FALSE, TRUE), "state_detection_rules",
                      Put(NoData, "r1", JsonList(<<"standby">>))) }
        cmds == { NoData, Put(NoData, "HOME", "c1"), Put(NoData, "turn_off", "c2") }
    IN  { WithOpt(WithOpt(d, CONF_TURN_OFF_COMMAND, off), CONF_TURN_ON_COMMAND, on) :
            d \in base \cup { Put(e, "custom_commands", c) : e \in base, c \in cmds \ {NoData} },
            off \in {Absent, "off1"}, on \in {Absent, "on1"} }

\* The entry exists and is not loaded: no data are stored for it, it has no
\* update listener and no connection.
InitEntry ==
    /\ device_class = "androidtv"
    /\ adb_server_ip = FALSE
    /\ options \in StoredOptions
    /\ LET p == ProcessConfig(NoData)
       IN  /\ dev_opt = NoData
           /\ setup_rules = NoData
           /\ signal = FALSE
           /\ listener = NoListener
           /\ app_id_to_name = p.app_id_to_name
           /\ app_name_to_id = p.app_name_to_id
           /\ get_sources = p.get_sources
           /\ exclude_unnamed_apps = p.exclude_unnamed_apps
           /\ screencap = p.screencap
           /\ custom_commands = p.custom_commands
    /\ hass_data = FALSE
    /\ update_listeners = 0
    /\ lifecycle = NoLifecycle
    /\ twin = TwinConstructed
    /\ dev_muted = "False"
    /\ service = NoService
    /\ available = FALSE
    /\ failed_connect_count = 0
    /\ state = None
    /\ app_id = None
    /\ source = None
    /\ app_name = None
    /\ source_list = NoneList
    /\ is_volume_muted = None
    /\ volume_level = None
    /\ hdmi_input = None
    /\ adb_response = None
    /\ adb_open = FALSE
    /\ link = "flaky"
    /\ conn_result = "ok"
    /\ last = NoCall
    /\ FlowParked
    /\ OptionsParked
    /\ tasks = TasksIdle

NextEntry ==
    \/ \E conn \in {"raise", "none", "device"} : SetupEntry(conn)
    \/ \E unload_ok \in BOOLEAN : UnloadEntry(unload_ok)

SpecEntry == InitEntry /\ [][NextEntry]_vars

\* async_setup_entry runs in this step, on an entry that is not loaded.
SetupStep == ~hass_data /\ lifecycle'.op = "setup"

\* The old option keys.
OldKeys == {"turn_off_command", "turn_on_command"}

\* C31: after _migrate_options_key the options contain neither old key, each
\* old key that was present has its value under the corresponding command key
\* inside custom_commands, and every option key other than the old keys and
\* custom_commands keeps its value; when neither old key is present the options
\* are not updated at all, so a second migration changes nothing.
C31_OptionsMigrated ==
    [][ SetupStep =>
          /\ DOMAIN options' \cap OldKeys = {}
          /\ "turn_off_command" \in DOMAIN options =>
                /\ "custom_commands" \in DOMAIN options'
                /\ Get(options'["custom_commands"], "turn_off", None)
                      = options["turn_off_command"]
          /\ "turn_on_command" \in DOMAIN options =>
                /\ "custom_commands" \in DOMAIN options'
                /\ Get(options'["custom_commands"], "turn_on", None)
                      = options["turn_on_command"]
          /\ \A k \in DOMAIN options \ (OldKeys \cup {"custom_commands"}) :
                k \in DOMAIN options' /\ options'[k] = options[k]
          /\ DOMAIN options' \subseteq (DOMAIN options \ OldKeys) \cup {"custom_commands"}
          /\ (DOMAIN options \cap OldKeys = {}) =>
                (options' = options /\ ~lifecycle'.migrated)
      ]_vars

\* C31 witness: a setup found both old keys next to other options and moved
\* them; the options now hold the two commands and the other options.
C31_Witness ==
    /\ lifecycle.op = "setup"
    /\ lifecycle.migrated
    /\ OldKeys \subseteq DOMAIN lifecycle.before
    /\ "state_detection_rules" \in DOMAIN lifecycle.before
    /\ DOMAIN options \cap OldKeys = {}
    /\ "state_detection_rules" \in DOMAIN options
    /\ options["custom_commands"] =
          [k \in {"turn_off", "turn_on"} |-> IF k = "turn_off" THEN "off1" ELSE "on1"]

\* C32: if the options contain an old turn-on or turn-off key and also a
\* custom_commands mapping with entries for other commands, those entries are
\* still in custom_commands after _migrate_options_key.
C32_AsStated ==
    [][ (SetupStep /\ DOMAIN options \cap OldKeys # {}
                   /\ "custom_commands" \in DOMAIN options) =>
          \A cmd \in DOMAIN options["custom_commands"] \ {"turn_off", "turn_on"} :
              /\ cmd \in DOMAIN options'["custom_commands"]
              /\ options'["custom_commands"][cmd] = options["custom_commands"][cmd]
      ]_vars

\* C33: a setup whose connection fails raises ConfigEntryNotReady, stores no
\* data for the entry and registers no listener; a setup that connects stores
\* the device and a copy of the options under the entry id; async_unload_entry
\* closes the connection and removes the entry's data exactly when the platform
\* unload succeeded and otherwise leaves the connection open and the data in
\* place.
C33_EntryLifecycle ==
    /\ [][ SetupStep =>
             IF lifecycle'.conn = "none"
             THEN /\ lifecycle'.outcome = "ConfigEntryNotReady"
                  /\ ~hass_data'
                  /\ update_listeners' = 0
                  /\ ~adb_open'
             ELSE IF lifecycle'.conn = "device"
             THEN /\ lifecycle'.outcome = "stored"
                  /\ hass_data'
                  /\ adb_open'
                  /\ dev_opt' = options'
                  /\ update_listeners' = 1
             ELSE ~hass_data' /\ update_listeners' = 0 ]_vars
    /\ [][ (hass_data /\ lifecycle'.op = "unload") =>
             IF lifecycle'.unload_ok
             THEN ~adb_open' /\ ~hass_data'
             ELSE adb_open' = adb_open /\ hass_data' /\ dev_opt' = dev_opt ]_vars

\* C33 witness: the entry was set up, its platform unload failed once, and it
\* is still loaded with its connection open and its data in place.
C33_Witness ==
    /\ lifecycle.op = "unload"
    /\ ~lifecycle.unload_ok
    /\ hass_data
    /\ adb_open
    /\ update_listeners = 1
    /\ dev_opt = options
    /\ "custom_commands" \in DOMAIN dev_opt

(***************************************************************************)
(* Properties of the options flow's control, staging and save.             *)
(***************************************************************************)
SelectionKeys == {"apps", "custom_commands", "state_detection_rules"}

\* The submitted form selected something under key.
Selected(key) == Truthy(Get(submitted'.input, key, None))

\* A submission to one of the three sub-forms.
SubFormStep == OptionsStep("apps") \/ OptionsStep("commands") \/ OptionsStep("rules")

\* C34: an init submission that selects an app, a command or a rule leaves
\* the entry's options alone and opens the sub-form of the selected app, else
\* of the selected command, else of the selected rule; a submission to the
\* apps or the commands form returns to the init form, a submission to the
\* rules form returns to the init form or shows the rules form again with an
\* error; and the flow ends, with the options entry created, on an init
\* submission without a selection and on no other step.
C34_FlowControl ==
    [][ /\ OptionsStep("init") =>
              LET input == submitted'.input
              IN  /\ Selected("apps") =>
                        /\ step_id' = "apps"
                        /\ form'.id = input["apps"]
                        /\ options' = options
                  /\ (~Selected("apps") /\ Selected("custom_commands")) =>
                        /\ step_id' = "commands"
                        /\ form'.id = input["custom_commands"]
                        /\ options' = options
                  /\ (~Selected("apps") /\ ~Selected("custom_commands")
                      /\ Selected("state_detection_rules")) =>
                        /\ step_id' = "rules"
                        /\ form'.id = input["state_detection_rules"]
                        /\ options' = options
                  /\ (\A key \in SelectionKeys : ~Selected(key)) => step_id' = "saved"
        /\ (OptionsStep("apps") \/ OptionsStep("commands")) => step_id' = "init"
        /\ OptionsStep("rules") =>
              \/ step_id' = "init"
              \/ step_id' = "rules" /\ form'.errors = "invalid_det_rules"
        /\ (step_id # "saved" /\ step_id' = "saved") =>
              /\ step_id = "init"
              /\ \A key \in SelectionKeys : ~Selected(key)
      ]_vars

\* C34 witness: an init form that selected both the command BACK and a new
\* rule was submitted, and the commands form for BACK is showing.
C34_Witness ==
    /\ submitted.step = "init"
    /\ Get(submitted.input, "custom_commands", None) = "BACK"
    /\ Get(submitted.input, "state_detection_rules", None) = RULES_NEW_ID
    /\ "apps" \notin DOMAIN submitted.input
    /\ step_id = "commands"
    /\ form.id = "BACK"
    /\ conf_cmd_id = "BACK"

\* C35: a submission to the apps, commands or rules form changes no option of
\* the entry, whatever it does to the flow's mappings, and neither does
\* opening the flow or an init submission that opens a sub-form: the entry's
\* options change on the final save only, so a flow that stops anywhere
\* before it leaves them as they were.
C35_StagedOnly ==
    [][ /\ SubFormStep => options' = options
        /\ OptionsStep("none") => options' = options
        /\ (OptionsStep("init") /\ step_id' # "saved") => options' = options
        /\ options' # options => (step_id = "init" /\ step_id' = "saved")
      ]_vars

\* C35 witness: the flow's three mappings all differ from the entry's, which
\* has kept its own, and the flow has not saved.
C35_Witness ==
    /\ step_id = "init"
    /\ submitted.step \in {"apps", "commands", "rules"}
    /\ SelectionKeys \subseteq DOMAIN options
    /\ apps # options["apps"]
    /\ cust_commands # options["custom_commands"]
    /\ state_det_rules # options["state_detection_rules"]
    /\ options["apps"] = Put(NoData, "app1", "N1")

\* The flow's mapping that is saved under key.
Staged(key) ==
    IF key = "apps" THEN apps
    ELSE IF key = "custom_commands" THEN cust_commands
    ELSE state_det_rules

\* C36: the options created by the final save have each of the keys apps,
\* custom_commands and state_detection_rules exactly when the flow's mapping
\* for it is not empty, and then with that mapping as value; every other key
\* of the submitted init form is saved with its submitted value, and nothing
\* else is saved; had the init form carried a value under one of the three
\* keys, the same options would have been saved.
C36_SavedShape ==
    [][ (OptionsStep("init") /\ step_id' = "saved") =>
          LET input == submitted'.input
          IN  /\ \A key \in SelectionKeys :
                    /\ key \in DOMAIN options' <=> DOMAIN Staged(key) # {}
                    /\ key \in DOMAIN options' => options'[key] = Staged(key)
              /\ \A k \in (DOMAIN input) \ SelectionKeys :
                    k \in DOMAIN options' /\ options'[k] = input[k]
              /\ DOMAIN options' \subseteq (DOMAIN input) \cup SelectionKeys
              /\ \A key \in SelectionKeys :
                    SaveConfig(Put(input, key, ""), apps, cust_commands,
                               state_det_rules) = options'
      ]_vars

\* C36 witness: the entry had all three mappings; the flow removed its only
\* app and saved, so the saved options have no apps key but still the
\* commands and the rules, and the switches as submitted.
C36_Witness ==
    /\ step_id = "saved"
    /\ submitted.step = "init"
    /\ "apps" \notin DOMAIN options
    /\ "custom_commands" \in DOMAIN options
    /\ "state_detection_rules" \in DOMAIN options
    /\ options["state_detection_rules"] = Put(NoData, "r1", JsonList(<<"standby">>))
    /\ options["exclude_unnamed_apps"] = TRUE

\* C37: on the rules form of an existing rule, a submission with the delete
\* switch removes that rule and no other from the flow's rules; a submission
\* without the switch and with empty rule values leaves the flow's rules
\* unchanged; on the form of a new rule, a submission with an empty rule id
\* leaves them unchanged; each of the three returns to the init form.
C37_RulesSubForm ==
    [][ OptionsStep("rules") =>
          LET input == submitted'.input
              delete == Get(input, "rule_delete", FALSE)
          IN  /\ (form.id # RULES_NEW_ID /\ delete) =>
                    /\ form.id \in DOMAIN state_det_rules
                    /\ form.id \notin DOMAIN state_det_rules'
                    /\ SameExcept(state_det_rules', state_det_rules, form.id)
                    /\ step_id' = "init"
              /\ (form.id # RULES_NEW_ID /\ ~delete /\ input["rule_values"] = "") =>
                    /\ state_det_rules' = state_det_rules
                    /\ step_id' = "init"
              /\ (form.id = RULES_NEW_ID /\ Get(input, "rule_id", "") = "") =>
                    /\ state_det_rules' = state_det_rules
                    /\ step_id' = "init"
      ]_vars

\* C37 witness: the rules form of r1 was submitted with the delete switch
\* after r2 had been added; r1 is gone from the flow's rules, r2 is still
\* there, and the init form is showing.
C37_Witness ==
    /\ submitted.step = "rules"
    /\ Get(submitted.input, "rule_delete", FALSE)
    /\ conf_rule_id = "r1"
    /\ "r1" \notin DOMAIN state_det_rules
    /\ "r2" \in DOMAIN state_det_rules
    /\ step_id = "init"

(***************************************************************************)
(* The entity's async_mute_volume and file services next to its update.    *)
(***************************************************************************)
FileServices == {"service_download", "service_upload"}

\* An Android TV that lists unnamed apps and whose polls return that it is
\* playing, or off.
InitService == Init /\ device_class = "androidtv" /\ ~exclude_unnamed_apps

ServiceUpdate ==
    /\ \E i \in UpdateInputs :
          /\ i.t.state \in {"playing", "off"}
          /\ AndroidTV_async_update(i.conn, i.out, i.t)
    /\ UNCHANGED twin

NextService ==
    \/ ServiceUpdate
    \/ \E i \in MuteInputs : MuteVolume(i.mute, i.status, i.is_muted, i.out, i.delivered)
    \/ \E op \in FileServices, local_path \in {LocalPaths.allowed, LocalPaths.outside} :
          \E out \in Outcomes : FileService(op, local_path, out)
    \/ Heal

SpecService == InitService /\ [][NextService]_vars

\* A call of async_mute_volume, of a file service.
MuteStep == service' # service /\ service'.op = "mute_volume"
FileStep == service' # service /\ service'.op \in FileServices

\* C38: async_mute_volume on an available entity calls aftv.mute_volume()
\* exactly when aftv.is_volume_muted() returned a status (it did not raise and
\* did not return None) that is not the requested one; without the toggle the
\* device's mute status stays, and a toggle that returned leaves the device
\* with the requested status.  A request for the status the device has sends
\* no toggle; so after a request that returned with the status known, the
\* same request again sends no toggle and changes nothing on the device.
C38_MuteToggle ==
    [][ (MuteStep /\ available) =>
          LET s == service'
          IN  /\ s.toggled <=> (s.is_muted \in {"True", "False"} /\ s.is_muted # s.mute)
              /\ last'.calls = IF s.toggled THEN 2 ELSE 1
              /\ ~s.toggled => dev_muted' = dev_muted
              /\ (s.toggled /\ s.returned) => dev_muted' = s.mute
              /\ dev_muted = s.mute => ~s.toggled
              /\ (service.op = "mute_volume" /\ service.returned
                  /\ service.is_muted # None /\ s.mute = service.mute) =>
                    /\ ~s.toggled
                    /\ dev_muted' = dev_muted
                    /\ dev_muted = s.mute
      ]_vars

\* C38 witness: the device had been muted by an earlier request; a request to
\* mute found it muted and ended after the status call, without a toggle.
C38_Witness ==
    /\ service.op = "mute_volume"
    /\ service.mute = "True"
    /\ service.before = "True"
    /\ service.is_muted = "True"
    /\ ~service.toggled
    /\ service.returned
    /\ dev_muted = "True"
    /\ last.op = "mute_volume"
    /\ last.calls = 1
    /\ available

\* C39: a file service calls the device (adb_pull for service_download,
\* adb_push for service_upload, once) only for a local path the hub allows
\* and on an available entity only; for a local path that is not allowed it
\* makes no device call and leaves the entity's availability and its
\* connection as they were.
C39_FileServices ==
    [][ FileStep =>
          LET s == service'
          IN  /\ s.transfer # "none" =>
                    /\ IsAllowedPath(s.local_path)
                    /\ available
                    /\ last'.calls = 1
                    /\ s.transfer = IF s.op = "service_download" THEN "adb_pull"
                                    ELSE "adb_push"
              /\ s.transfer = "none" => last'.calls = 0
              /\ (IsAllowedPath(s.local_path) /\ available) => s.transfer # "none"
              /\ ~IsAllowedPath(s.local_path) =>
                    /\ s.transfer = "none"
                    /\ available' = available
                    /\ adb_open' = adb_open
                    /\ ~last'.closed
                    /\ last'.propagated = "none"
      ]_vars

\* C39 witness: service_upload was called on an available entity over a flaky
\* link with a local path outside the allowed directories; it ran, made no
\* device call, and the entity is still available with its connection open.
C39_Witness ==
    /\ service.op = "service_upload"
    /\ service.local_path = LocalPaths.outside
    /\ service.transfer = "none"
    /\ service.returned
    /\ last.op = "service_upload"
    /\ ~last.skipped
    /\ last.calls = 0
    /\ link = "flaky"
    /\ available
    /\ adb_open

=============================================================================
